---------------------------- MODULE Spec2Model ----------------------------
(***************************************************************************)
(* A model of the filter-dispatch core of proxsmtpd (src/src/proxsmtpd.c): *)
(* the callbacks cb_check_pre and cb_check_data, the plumber fork_filter,  *)
(* the pipe and file pumps, the SMTP relay, the reaper wait_process /      *)
(* kill_process and the rejection-reason accumulator.                      *)
(*                                                                         *)
(* C strings are sequences of one-character strings; a string literal of   *)
(* the source is a one-token sequence (<<"FILTERED">>), and the null       *)
(* pointer is the token sequence NULL.                                     *)
(***************************************************************************)
EXTENDS Integers, Sequences, FiniteSets, TLC

(***************************************************************************)
(* Program constants.                                                      *)
(***************************************************************************)
FILTER_PIPE == 1
FILTER_FILE == 2
FILTER_SMTP == 3
FILTER_REJECT == 4

POLL_TIME == 20

sizeof_obuf == 1024
sizeof_ebuf == 256

NULL == <<"(null)">>
REJECTED == <<"Content Rejected">>
DEFAULT_REJECT == <<"530 Email Rejected">>
STATUS_REJECTED == <<"REJECTED">>
STATUS_FILTERED == <<"FILTERED">>
STATUS_FILTER_ERROR == <<"FILTER-ERROR">>
Header == <<"X-Filter: ok">>
FilterCommand == <<"filter">>

(***************************************************************************)
(* Bounds of the model.                                                    *)
(***************************************************************************)
\* FilterTimeout, in seconds, of the configuration.
FilterTimeout == 1
\* Most bytes the filter child writes to its stdout.
MaxOut == 2
\* Most bytes the filter child writes to its stderr.
MaxErr == 2
\* Most chunks sp_read_data returns for one message body.
MaxChunks == 1
\* Most chunks of a body in the study of the stdin path (SpecIn).
MaxInChunks == 3
\* The reply study (SpecRecv): sizeof buf of smtp_command, scaled down from
\* 4096, and the most bytes of a server reply.
RecvLen == 4
MaxReply == 5

Min(a, b) == IF a < b THEN a ELSE b

IsPrefix(s, t) == Len(s) <= Len(t) /\ SubSeq(t, 1, Len(s)) = s

(***************************************************************************)
(* Characters.                                                             *)
(***************************************************************************)
isspace(c) == c \in {" ", "\n", "\t", "\r"}


(***************************************************************************)
(* String helpers used by the accumulator (libc and stringx).              *)
(***************************************************************************)
RECURSIVE trim_start(_)
trim_start(s) ==
    IF s # <<>> /\ isspace(Head(s)) THEN trim_start(Tail(s)) ELSE s

RECURSIVE trim_end(_)
trim_end(s) ==
    IF s # <<>> /\ isspace(s[Len(s)]) THEN trim_end(SubSeq(s, 1, Len(s) - 1)) ELSE s

\* strlcat(dst, src, size): append as much of src as leaves room for the
\* terminator; a dst already of size or more bytes is left alone.
strlcat(dst, src, size) ==
    IF Len(dst) >= size THEN dst
    ELSE dst \o SubSeq(src, 1, Min(Len(src), size - 1 - Len(dst)))

strlcpy(src, size) ==
    IF size = 0 THEN <<>> ELSE SubSeq(src, 1, Min(Len(src), size - 1))

\* strrchr(s, c): the index of the last c in s, 0 when there is none.
strrchr(s, c) ==
    LET I == {i \in 1..Len(s) : s[i] = c}
    IN  IF I = {} THEN 0 ELSE CHOOSE i \in I : \A j \in I : j <= i

(***************************************************************************)
(* buffer_reject_message(data, buf, buflen): the accumulator after folding *)
(* the chunk data into buf.                                                *)
(***************************************************************************)
\* The scan of lines 1032-1038: the length left once trailing whitespace is
\* walked over.
StrippedLen(data) == Len(trim_end(data))

\* newline of line 1030: a '\n' among the trailing whitespace walked over.
TrailingNewline(data) ==
    \E i \in (StrippedLen(data) + 1)..Len(data) : data[i] = "\n"

\* Line 1055 reads buf[strlen(buf) - 1]; with an empty buf that is buf[-1],
\* one byte before the array.
ReadsBeforeBuf(data, buf) ==
    LET t == StrippedLen(data)
        d == IF TrailingNewline(data) THEN SubSeq(data, 1, t) ELSE data
    IN  t > 0 /\ strrchr(d, "\n") = 0 /\ buf = <<>>

\* What line 1055 finds: for an empty buf the byte before the array decides,
\* and either way buf stays empty (line 1056 writes the 0 it already holds).
EndsInNewline(buf) == buf # <<>> /\ buf[Len(buf)] = "\n"

buffer_reject_message(data, buf, buflen) ==
    LET t == StrippedLen(data)
        newline == TrailingNewline(data)
        d == IF newline THEN SubSeq(data, 1, t) ELSE data
        nl == strrchr(d, "\n")
        b1 == IF t > 0
              THEN IF nl = 0
                   THEN strlcat(IF EndsInNewline(buf) THEN <<>> ELSE buf,
                                trim_start(d), buflen)
                   ELSE strlcat(<<>>, trim_start(SubSeq(d, nl, Len(d))), buflen)
              ELSE buf
    IN  IF newline THEN strlcat(b1, <<"\n">>, buflen) ELSE b1

final_reject_message(buf, buflen) ==
    IF buf = <<>> THEN strlcpy(REJECTED, buflen) ELSE trim_end(buf)


(***************************************************************************)
(* State.                                                                  *)
(***************************************************************************)
VARIABLES
    g_pxstate,  \* the configuration: filter_type, command, timeout (seconds)
    body,       \* the message body the client sends, in sp_read_data chunks
    envelope,   \* sp->sender and sp->recipients, NULL when absent
    pc,         \* where the connection thread is
    preRet,     \* <<v>> once cb_check_pre has returned v
    dataRet,    \* <<v>> once cb_check_data has returned v
    ret,        \* ret of the running process_*_command
    pid,        \* its pid: 0, -1 or the child's pid
    infd, outfd, errfd,   \* its descriptors, -1 when closed
    rmask, wmask,         \* the descriptors select reported ready
    ibuf,       \* the unwritten rest of the chunk from sp_read_data (ilen = Len)
    ebuf,       \* the rejection-reason accumulator
    status,     \* the wait status wait_process stored
    waits,      \* polls wait_process has left
    wcaller,    \* who called wait_process: "reap" or "kill"
    calls,      \* the framework instructions issued, in order
    source,     \* the chunks sp_read_data has yet to return
    handed,     \* the bytes handed to sp_write_data, concatenated
    cache,      \* the body sp_cache_data spooled
    delivered,  \* <<b>> once sp_done_data has committed body b
    quit,       \* what sp_is_quit returns
    child,      \* the filter process
    outPipe, errPipe,     \* bytes in flight on the child's stdout and stderr
    childOut, childErr,   \* everything the child wrote to stdout and stderr
    childIn,    \* everything written to the child's stdin
    sigs,       \* the signals sent: <<pid, signal>>
    fdopen,     \* descriptors the core holds open
    opened,     \* descriptors the core opened in this dispatch
    closes,     \* close() calls per descriptor
    stray,      \* values passed to close() that the core never opened
    sock, cachefd,        \* s and fd of process_smtp_command
    sent,       \* the commands sent to the downstream server, in order
    sentBody,   \* the bytes of the cache file sent to it
    rcvd,       \* the replies recv gave to smtp_command, in order
    last_line,  \* the response smtp_command captured
    rcpts,      \* r of the strsep loop: the recipients still to split
    f_stream,   \* accumulator study: the stderr bytes folded so far
    f_buf,      \* accumulator study: the accumulator
    f_oob,      \* accumulator study: a fold read the byte before the array
    w_polls,    \* reaper study: the polls wait_process has made
    w_present,  \* reaper study: the polls that found the child still there
    w_last,     \* reaper study: <<o>>, what the last poll found
    w_slept,    \* reaper study: the milliseconds slept between polls
    w_ret,      \* reaper study: <<r>> once wait_process has returned r
    r_reply,    \* reply study: the bytes of the server's reply
    r_t,        \* reply study: t, what recv returned
    r_oob,      \* reply study: buf[t] is outside buf
    r_resp      \* reply study: *resp_data

cfgVars == <<g_pxstate, body, envelope>>
cbVars == <<preRet, dataRet>>
pumpVars == <<ret, pid, infd, outfd, errfd, rmask, wmask, ibuf, ebuf, status,
              waits, wcaller>>
fwVars == <<calls, source, handed, cache, delivered, quit>>
childVars == <<child, outPipe, errPipe, childOut, childErr, childIn, sigs>>
fdVars == <<fdopen, opened, closes, stray>>
smtpVars == <<sock, cachefd, sent, sentBody, rcvd, last_line, rcpts>>
foldVars == <<f_stream, f_buf, f_oob>>
waitVars == <<w_polls, w_present, w_last, w_slept, w_ret>>
recvVars == <<r_reply, r_t, r_oob, r_resp>>

vars == <<cfgVars, pc, cbVars, pumpVars, fwVars, childVars, fdVars, smtpVars,
          foldVars, waitVars, recvVars>>

(***************************************************************************)
(* Descriptors and processes.                                              *)
(***************************************************************************)
\* The numbers pipe() hands out for pipe_i, pipe_o and pipe_e (read end,
\* write end), and those of the relay socket and the cache file.
PipeI == <<3, 4>>
PipeO == <<5, 6>>
PipeE == <<7, 8>>
SockFd == 3
CacheFd == 4
READ_END == 1
WRITE_END == 2
Fds == 3..8

\* What an uninitialised int may hold: -1, a descriptor this dispatch does
\* not own (0), or the number of a pipe end fork_filter has closed again.
Garbage == {-1, 0, PipeI[WRITE_END]}

ChildPid == 100

SIGTERM == 15
SIGKILL == 9

ExitStatus(code) == [exited |-> TRUE, code |-> code]
SignalStatus == [exited |-> FALSE, code |-> 0]
\* The filter process: st is none, run, zombie or reaped; inOpen, outOpen and
\* errOpen say that it holds its end of a pipe whose other end the parent
\* still holds (a pipe the parent has closed is out of the picture).
NoChild == [st |-> "none", inOpen |-> FALSE, outOpen |-> FALSE,
            errOpen |-> FALSE, status |-> ExitStatus(0)]

\* A child that has been waited for: its entry in the process table is gone
\* (status stays as the record of how it ended; no waitpid gives it again).
Reaped(c) == [c EXCEPT !.st = "reaped"]

\* close() on each value of fds in turn: a descriptor the core opened in
\* this dispatch has its close counted, any other value is a stray close.
CloseFds(fds) ==
    LET F == {fds[i] : i \in 1..Len(fds)}
    IN  /\ fdopen' = fdopen \ F
        /\ closes' = [f \in Fds |->
                        IF f \in opened
                        THEN closes[f] + Cardinality({i \in 1..Len(fds) : fds[i] = f})
                        ELSE closes[f]]
        /\ stray' = stray \cup (F \ opened)

Call(op, arg, ok) == [op |-> op, arg |-> arg, ok |-> ok]
AddLog(val) == Call("add_log", val, TRUE)

\* The bodies a client sends: the first n chunks, n <= MaxChunks, of a
\* message whose i-th chunk holds the bytes 2i-1 and 2i.
Bodies ==
    {[i \in 1..n |-> <<2 * i - 1, 2 * i>>] : n \in 0..MaxChunks}

\* The envelope of the message: sp->sender, and sp->recipients, the
\* recipients (one token each) separated by newlines; either is NULL when
\* the client gave none.  It is read in smtp mode only and varies only there.
MaxRcpts == 2
Sender == <<"sender">>
Rcpt(i) == "rcpt" \o ToString(i)

RECURSIVE Recipients(_)
Recipients(n) ==
    IF n = 1 THEN <<Rcpt(1)>> ELSE Recipients(n - 1) \o <<"\n", Rcpt(n)>>

Envelopes ==
    [sender : {NULL, Sender},
     recipients : {NULL} \cup {Recipients(n) : n \in 1..MaxRcpts}]

\* strsep(&r, "\n"): the token up to the first newline of r and the rest
\* after it; the last token leaves r NULL, and a NULL r gives no token.
strsep(r) ==
    LET I == {i \in 1..Len(r) : r[i] = "\n"}
        n == CHOOSE i \in I : \A j \in I : i <= j
    IN  IF r = NULL THEN [token |-> NULL, r |-> NULL]
        ELSE IF I = {} THEN [token |-> r, r |-> NULL]
        ELSE [token |-> SubSeq(r, 1, n - 1), r |-> SubSeq(r, n + 1, Len(r))]

RECURSIVE Flatten(_)
Flatten(ss) == IF ss = <<>> THEN <<>> ELSE Head(ss) \o Flatten(Tail(ss))

\* The framework's side of sp_cache_data and sp_done_data (spec section 6):
\* cache_data spools what the client has yet to send, and done_data commits
\* the filtered body when sp_write_data built one and the spooled one
\* otherwise.
Spooled(src) == Flatten(src)
Committed(filtered) == <<IF filtered THEN handed ELSE cache>>

InitDispatch ==
    /\ pc = "idle"
    /\ preRet = <<>>
    /\ dataRet = <<>>
    /\ ret = 0
    /\ pid = 0
    /\ infd = -1 /\ outfd = -1 /\ errfd = -1
    /\ rmask = {} /\ wmask = {}
    /\ ibuf = <<>>
    /\ ebuf = <<>>
    /\ status = ExitStatus(0)
    /\ waits = 0
    /\ wcaller = "reap"
    /\ calls = <<>>
    /\ handed = <<>>
    /\ cache = <<>>
    /\ delivered = <<>>
    /\ quit = FALSE
    /\ child = NoChild
    /\ outPipe = <<>> /\ errPipe = <<>>
    /\ childOut = <<>> /\ childErr = <<>>
    /\ childIn = <<>>
    /\ sigs = <<>>
    /\ fdopen = {} /\ opened = {} /\ stray = {}
    /\ closes = [f \in Fds |-> 0]
    /\ sock = -1 /\ cachefd = -1
    /\ sent = <<>>
    /\ sentBody = <<>>
    /\ rcvd = <<>>
    /\ last_line = NULL
    /\ rcpts = NULL

InitFoldIdle ==
    /\ f_stream = <<>>
    /\ f_buf = <<>>
    /\ f_oob = FALSE

InitWaitIdle ==
    /\ w_polls = 0
    /\ w_present = 0
    /\ w_last = <<>>
    /\ w_slept = 0
    /\ w_ret = <<>>

InitRecvIdle ==
    /\ r_reply = <<>>
    /\ r_t = 0
    /\ r_oob = FALSE
    /\ r_resp = NULL

Init ==
    /\ g_pxstate \in [filter_type : {FILTER_PIPE, FILTER_FILE, FILTER_SMTP, FILTER_REJECT},
                      command : {NULL, FilterCommand},
                      timeout : {FilterTimeout}]
    /\ body \in Bodies
    /\ envelope \in IF g_pxstate.filter_type = FILTER_SMTP /\ g_pxstate.command # NULL
                     THEN Envelopes
                     ELSE {[sender |-> Sender, recipients |-> Recipients(1)]}
    /\ source = body
    /\ InitDispatch
    /\ InitFoldIdle
    /\ InitWaitIdle
    /\ InitRecvIdle

(***************************************************************************)
(* The callbacks.                                                          *)
(***************************************************************************)
\* cb_check_pre answering terminate-ok whatever sp_fail_msg returned.
cb_check_pre_ignoring_failure ==
    /\ pc = "idle"
    /\ preRet = <<>>
    /\ IF g_pxstate.filter_type = FILTER_REJECT
       THEN \E ok \in BOOLEAN :
              /\ calls' = calls \o <<AddLog(STATUS_REJECTED),
                                     Call("fail_msg", DEFAULT_REJECT, ok)>>
              /\ preRet' = <<0>>
       ELSE /\ calls' = calls
            /\ preRet' = <<1>>
    /\ UNCHANGED <<cfgVars, pc, dataRet, pumpVars, source, handed, cache, delivered, quit,
                   childVars, fdVars, smtpVars, foldVars, waitVars, recvVars>>

\* cb_check_pre, lines 231-242.
cb_check_pre ==
    /\ pc = "idle"
    /\ preRet = <<>>
    /\ IF g_pxstate.filter_type = FILTER_REJECT
       THEN \E ok \in BOOLEAN :
              /\ calls' = calls \o <<AddLog(STATUS_REJECTED),
                                     Call("fail_msg", DEFAULT_REJECT, ok)>>
              /\ preRet' = <<IF ok THEN 0 ELSE -1>>
       ELSE /\ calls' = calls
            /\ preRet' = <<1>>
    /\ UNCHANGED <<cfgVars, pc, dataRet, pumpVars, source, handed, cache, delivered, quit,
                   childVars, fdVars, smtpVars, foldVars, waitVars, recvVars>>

\* cb_check_data with filter_type reject telling the client to send the
\* body before it rejects it.
CheckDataReject_after_start ==
    /\ pc = "idle"
    /\ g_pxstate.filter_type = FILTER_REJECT
    /\ \E ok \in BOOLEAN :
         /\ calls' = calls \o <<Call("start_data", NULL, TRUE),
                                AddLog(STATUS_REJECTED),
                                Call("fail_data", DEFAULT_REJECT, ok)>>
         /\ dataRet' = <<IF ok THEN 0 ELSE -1>>
    /\ pc' = "done"
    /\ UNCHANGED <<cfgVars, preRet, pumpVars, source, handed, cache, delivered, quit,
                   childVars, fdVars, smtpVars, foldVars, waitVars, recvVars>>

\* cb_check_data with filter_type reject, lines 248-254.
CheckDataReject ==
    /\ pc = "idle"
    /\ g_pxstate.filter_type = FILTER_REJECT
    /\ \E ok \in BOOLEAN :
         /\ calls' = calls \o <<AddLog(STATUS_REJECTED),
                                Call("fail_data", DEFAULT_REJECT, ok)>>
         /\ dataRet' = <<IF ok THEN 0 ELSE -1>>
    /\ pc' = "done"
    /\ UNCHANGED <<cfgVars, preRet, pumpVars, source, handed, cache, delivered, quit,
                   childVars, fdVars, smtpVars, foldVars, waitVars, recvVars>>

\* cb_check_data when sp_start_data fails, lines 257-258.
CheckDataStartFails ==
    /\ pc = "idle"
    /\ g_pxstate.filter_type # FILTER_REJECT
    /\ calls' = Append(calls, Call("start_data", NULL, FALSE))
    /\ dataRet' = <<-1>>
    /\ pc' = "done"
    /\ UNCHANGED <<cfgVars, preRet, pumpVars, source, handed, cache, delivered, quit,
                   childVars, fdVars, smtpVars, foldVars, waitVars, recvVars>>

\* The bypass committing without having spooled the body.
CheckDataBypass_without_cache ==
    /\ pc = "idle"
    /\ g_pxstate.filter_type # FILTER_REJECT
    /\ g_pxstate.command = NULL
    /\ \E okD \in BOOLEAN :
         /\ calls' = calls \o <<Call("start_data", NULL, TRUE),
                                Call("done_data", Header, okD)>>
         /\ dataRet' = <<IF okD THEN 0 ELSE -1>>
         /\ delivered' = IF okD THEN Committed(FALSE) ELSE delivered
    /\ pc' = "done"
    /\ UNCHANGED <<cfgVars, preRet, pumpVars, source, cache, handed, quit,
                   childVars, fdVars, smtpVars, foldVars, waitVars, recvVars>>

\* cb_check_data with no command: the bypass, lines 257-268.  sp_cache_data
\* spools the whole body; the || of line 264 skips sp_done_data when it fails.
CheckDataBypass ==
    /\ pc = "idle"
    /\ g_pxstate.filter_type # FILTER_REJECT
    /\ g_pxstate.command = NULL
    /\ \E okC, okD \in BOOLEAN :
         /\ calls' = calls \o <<Call("start_data", NULL, TRUE),
                                Call("cache_data", NULL, okC)>>
                           \o (IF okC THEN <<Call("done_data", Header, okD)>> ELSE <<>>)
         /\ dataRet' = <<IF okC /\ okD THEN 0 ELSE -1>>
         /\ source' = IF okC THEN <<>> ELSE source
         /\ cache' = IF okC THEN Spooled(source) ELSE cache
         /\ delivered' = IF okC /\ okD THEN <<Spooled(source)>> ELSE delivered
    /\ pc' = "done"
    /\ UNCHANGED <<cfgVars, preRet, pumpVars, handed, quit,
                   childVars, fdVars, smtpVars, foldVars, waitVars, recvVars>>


\* cb_check_data with a command, lines 257-279: DATA is started, the
\* reap-any loop of line 271 collects every zombie of the process, and the
\* process_*_command of the filter type is entered.  process_pipe_command
\* declares infd, outfd and errfd without initialising them (lines 776-783);
\* process_file_command starts with pid = 0 and errfd = -1.
CheckDataDispatch ==
    /\ pc = "idle"
    /\ g_pxstate.filter_type # FILTER_REJECT
    /\ g_pxstate.command # NULL
    /\ calls' = Append(calls, Call("start_data", NULL, TRUE))
    /\ child' = IF child.st = "zombie" THEN Reaped(child) ELSE child
    /\ ret' = 0
    /\ ebuf' = <<>>
    /\ IF g_pxstate.filter_type = FILTER_PIPE
       THEN /\ pc' = "pipe_fork"
            /\ infd' \in Garbage /\ outfd' \in Garbage /\ errfd' \in Garbage
            /\ pid' = 0
       ELSE /\ pc' = IF g_pxstate.filter_type = FILTER_SMTP
                     THEN "smtp_cache" ELSE "file_cache"
            /\ infd' = -1 /\ outfd' = -1 /\ errfd' = -1
            /\ pid' = 0
    /\ UNCHANGED <<cfgVars, cbVars, rmask, wmask, ibuf, status, waits, wcaller,
                   source, handed, cache, delivered, quit,
                   outPipe, errPipe, childOut, childErr, childIn, sigs,
                   fdVars, smtpVars, foldVars, waitVars, recvVars>>

(***************************************************************************)
(* fork_filter, lines 372-491.                                             *)
(***************************************************************************)
\* The pipes fork_filter is asked for, in the order it creates them.
WantedPipes(wantIn, wantOut, wantErr) ==
    (IF wantIn THEN <<PipeI>> ELSE <<>>) \o (IF wantOut THEN <<PipeO>> ELSE <<>>)
        \o (IF wantErr THEN <<PipeE>> ELSE <<>>)

EndsOf(pipes) == UNION {{pp[READ_END], pp[WRITE_END]} : pp \in {pipes[i] : i \in 1..Len(pipes)}}

\* The ends handed back to the caller: the write end of pipe_i and the read
\* ends of pipe_o and pipe_e (lines 455-474).
ParentEnds(wantIn, wantOut, wantErr) ==
    (IF wantIn THEN {PipeI[WRITE_END]} ELSE {})
        \cup (IF wantOut THEN {PipeO[READ_END]} ELSE {})
        \cup (IF wantErr THEN {PipeE[READ_END]} ELSE {})

\* fork_filter fails: pipe() fails on the n-th pipe wanted (n <= Len) or
\* fork() fails with all of them made (n = Len + 1); cleanup closes every
\* end that was made.
ForkFilterFails(wantIn, wantOut, wantErr, n) ==
    LET made == SubSeq(WantedPipes(wantIn, wantOut, wantErr), 1, n - 1)
    IN  /\ opened' = opened \cup EndsOf(made)
        /\ fdopen' = fdopen
        /\ closes' = [f \in Fds |-> IF f \in EndsOf(made) THEN closes[f] + 1 ELSE closes[f]]
        /\ stray' = stray
        /\ child' = child
        /\ pid' = -1

\* fork_filter succeeds: the child runs the command with the child-side ends
\* as its standard streams, and the parent closes them and keeps its own.
ForkFilterOk(wantIn, wantOut, wantErr) ==
    LET made == EndsOf(WantedPipes(wantIn, wantOut, wantErr))
        kept == ParentEnds(wantIn, wantOut, wantErr)
    IN  /\ opened' = opened \cup made
        /\ fdopen' = fdopen \cup kept
        /\ closes' = [f \in Fds |-> IF f \in made \ kept THEN closes[f] + 1 ELSE closes[f]]
        /\ stray' = stray
        /\ child' = [st |-> "run", inOpen |-> wantIn, outOpen |-> wantOut,
                     errOpen |-> wantErr, status |-> ExitStatus(0)]
        /\ pid' = ChildPid

\* process_pipe_command up to the fork, lines 789-795.
PipeFork ==
    /\ pc = "pipe_fork"
    /\ \/ /\ ForkFilterOk(TRUE, TRUE, TRUE)
          /\ infd' = PipeI[WRITE_END]
          /\ outfd' = PipeO[READ_END]
          /\ errfd' = PipeE[READ_END]
          /\ ret' = ret
          /\ pc' = "pipe_open"
       \/ /\ \E n \in 1..4 : ForkFilterFails(TRUE, TRUE, TRUE, n)
          /\ UNCHANGED <<infd, outfd, errfd>>
          /\ ret' = -1
          /\ pc' = "pipe_cleanup"
    /\ UNCHANGED <<cfgVars, cbVars, rmask, wmask, ibuf, ebuf, status, waits,
                   wcaller, fwVars, outPipe, errPipe, childOut, childErr,
                   childIn, sigs, smtpVars, foldVars, waitVars, recvVars>>


(***************************************************************************)
(* process_pipe_command: the pump, lines 797-956.  One action per step of  *)
(* a loop iteration: select, stdin, stdout, stderr, sp_is_quit.            *)
(***************************************************************************)
\* int waits = g_pxstate.timeout.tv_sec * (1000 / POLL_TIME), line 1078.  For
\* the timeouts drawn here the product is far inside int.
WaitBudget == g_pxstate.timeout * (1000 \div POLL_TIME)

\* RETURN(-1) inside process_pipe_command.
PipeReturnFail ==
    /\ ret' = -1
    /\ pc' = "pipe_cleanup"

\* sp_write_data(sp, obuf, 0), lines 797-799.
PipeOpen ==
    /\ pc = "pipe_open"
    /\ \E ok \in BOOLEAN :
         /\ calls' = Append(calls, Call("write_data", <<"open">>, ok))
         /\ IF ok THEN pc' = "pipe_select" /\ ret' = ret ELSE PipeReturnFail
    /\ UNCHANGED <<cfgVars, cbVars, pid, infd, outfd, errfd, rmask, wmask, ibuf,
                   ebuf, status, waits, wcaller, source, handed, cache,
                   delivered, quit, childVars, fdVars, smtpVars, foldVars, waitVars, recvVars>>

OutReadable == outfd # -1 /\ (outPipe # <<>> \/ ~child.outOpen)
ErrReadable == errfd # -1 /\ (errPipe # <<>> \/ ~child.errOpen)

\* The loop and select with case 0 (the timeout) leaving the loop as if all
\* descriptors were closed.
PipeSelect_timeout_breaks ==
    /\ pc = "pipe_select"
    /\ \/ /\ infd = -1 /\ outfd = -1 /\ errfd = -1
          /\ pc' = "pipe_closesink"
          /\ UNCHANGED <<ret, rmask, wmask>>
       \/ /\ ~(infd = -1 /\ outfd = -1 /\ errfd = -1)
          /\ PipeReturnFail
          /\ UNCHANGED <<rmask, wmask>>
       \/ /\ ~(infd = -1 /\ outfd = -1 /\ errfd = -1)
          /\ \E w \in BOOLEAN :
               LET wm == IF w /\ infd # -1 THEN {infd} ELSE {}
                   rm == (IF OutReadable THEN {outfd} ELSE {})
                            \cup (IF ErrReadable THEN {errfd} ELSE {})
               IN  IF wm \cup rm = {}
                   THEN pc' = "pipe_closesink" /\ UNCHANGED <<ret, rmask, wmask>>
                   ELSE /\ rmask' = rm /\ wmask' = wm
                        /\ pc' = "pipe_in"
                        /\ ret' = ret
    /\ UNCHANGED <<cfgVars, cbVars, pid, infd, outfd, errfd, ibuf, ebuf, status,
                   waits, wcaller, fwVars, childVars, fdVars, smtpVars, foldVars, waitVars, recvVars>>

\* The loop test and select, lines 802-832.  The child's stdin is writable
\* or not (w) as the child drains it; a read end is readable when bytes are
\* in flight or its writer is gone.
PipeSelect ==
    /\ pc = "pipe_select"
    /\ \/ /\ infd = -1 /\ outfd = -1 /\ errfd = -1
          /\ pc' = "pipe_closesink"
          /\ UNCHANGED <<ret, rmask, wmask>>
       \/ /\ ~(infd = -1 /\ outfd = -1 /\ errfd = -1)
          /\ PipeReturnFail                  \* select returns -1
          /\ UNCHANGED <<rmask, wmask>>
       \/ /\ ~(infd = -1 /\ outfd = -1 /\ errfd = -1)
          /\ \E w \in BOOLEAN :
               LET wm == IF w /\ infd # -1 THEN {infd} ELSE {}
                   rm == (IF OutReadable THEN {outfd} ELSE {})
                            \cup (IF ErrReadable THEN {errfd} ELSE {})
               IN  IF wm \cup rm = {}
                   THEN PipeReturnFail /\ UNCHANGED <<rmask, wmask>>   \* timeout
                   ELSE /\ rmask' = rm /\ wmask' = wm
                        /\ pc' = "pipe_in"
                        /\ ret' = ret
    /\ UNCHANGED <<cfgVars, cbVars, pid, infd, outfd, errfd, ibuf, ebuf, status,
                   waits, wcaller, fwVars, childVars, fdVars, smtpVars, foldVars, waitVars, recvVars>>

\* sp_read_data failing, as it is entered in calls.
ReadFails == Call("read_data", NULL, FALSE)

\* Handling of stdin that leaves ibuf where it was after a write.
PipeIn_rewrites_chunk ==
    /\ pc = "pipe_in"
    /\ LET buf == IF ibuf = <<>> /\ source # <<>> THEN Head(source) ELSE ibuf
           src == IF ibuf = <<>> /\ source # <<>> THEN Tail(source) ELSE source
       IN
       \/ /\ ~(infd # -1 /\ infd \in wmask)
          /\ pc' = "pipe_out"
          /\ UNCHANGED <<ret, infd, ibuf, source, childIn, fdVars, child, calls>>
       \/ /\ infd # -1 /\ infd \in wmask
          /\ ibuf = <<>>                     \* sp_read_data returns -1
          /\ calls' = Append(calls, ReadFails)
          /\ PipeReturnFail
          /\ UNCHANGED <<infd, ibuf, source, childIn, fdVars, child>>
       \/ /\ infd # -1 /\ infd \in wmask
          /\ ibuf = <<>> /\ source = <<>>    \* sp_read_data returns 0
          /\ CloseFds(<<infd>>)
          /\ infd' = -1
          /\ child' = [child EXCEPT !.inOpen = FALSE]
          /\ pc' = "pipe_out"
          /\ UNCHANGED <<ret, ibuf, source, childIn, opened, calls>>
       \/ /\ infd # -1 /\ infd \in wmask
          /\ buf # <<>>
          /\ ~child.inOpen                   \* write fails with EPIPE
          /\ \E k \in 0..Len(src), failed \in BOOLEAN :
               /\ k < Len(src) => failed
               /\ source' = SubSeq(src, k + 1, Len(src))
               /\ calls' = IF failed THEN Append(calls, ReadFails) ELSE calls
          /\ ibuf' = buf
          /\ CloseFds(<<infd>>)
          /\ infd' = -1
          /\ pc' = "pipe_out"
          /\ UNCHANGED <<ret, childIn, opened, child>>
       \/ /\ infd # -1 /\ infd \in wmask
          /\ buf # <<>>                      \* write fails with EAGAIN or EINTR
          /\ child.inOpen
          /\ ibuf' = buf /\ source' = src
          /\ pc' = "pipe_out"
          /\ UNCHANGED <<ret, infd, childIn, fdVars, child, calls>>
       \/ /\ infd # -1 /\ infd \in wmask
          /\ buf # <<>>                      \* write fails with another error
          /\ child.inOpen
          /\ ibuf' = buf /\ source' = src
          /\ PipeReturnFail
          /\ UNCHANGED <<infd, childIn, fdVars, child, calls>>
       \/ /\ infd # -1 /\ infd \in wmask
          /\ buf # <<>>                      \* write takes r bytes
          /\ child.inOpen
          /\ \E r \in 1..Len(buf) :
               /\ childIn' = childIn \o SubSeq(buf, 1, r)
               /\ ibuf' = buf
          /\ source' = src
          /\ pc' = "pipe_out"
          /\ UNCHANGED <<ret, infd, fdVars, child, calls>>
    /\ UNCHANGED <<cfgVars, cbVars, pid, outfd, errfd, rmask, wmask, ebuf, status,
                   waits, wcaller, handed, cache, delivered, quit,
                   outPipe, errPipe, childOut, childErr, sigs,
                   smtpVars, foldVars, waitVars, recvVars>>

\* Handling of the child's stdin, lines 834-888.  The drain of line 866
\* reads until sp_read_data gives 0 or fails, and a write to a pipe whose
\* reader is gone fails with EPIPE.
PipeIn ==
    /\ pc = "pipe_in"
    /\ LET buf == IF ibuf = <<>> /\ source # <<>> THEN Head(source) ELSE ibuf
           src == IF ibuf = <<>> /\ source # <<>> THEN Tail(source) ELSE source
       IN
       \/ /\ ~(infd # -1 /\ infd \in wmask)
          /\ pc' = "pipe_out"
          /\ UNCHANGED <<ret, infd, ibuf, source, childIn, fdVars, child, calls>>
       \/ /\ infd # -1 /\ infd \in wmask
          /\ ibuf = <<>>                     \* sp_read_data returns -1
          /\ calls' = Append(calls, ReadFails)
          /\ PipeReturnFail
          /\ UNCHANGED <<infd, ibuf, source, childIn, fdVars, child>>
       \/ /\ infd # -1 /\ infd \in wmask
          /\ ibuf = <<>> /\ source = <<>>    \* sp_read_data returns 0
          /\ CloseFds(<<infd>>)
          /\ infd' = -1
          /\ child' = [child EXCEPT !.inOpen = FALSE]
          /\ pc' = "pipe_out"
          /\ UNCHANGED <<ret, ibuf, source, childIn, opened, calls>>
       \/ /\ infd # -1 /\ infd \in wmask
          /\ buf # <<>>
          /\ ~child.inOpen                   \* write fails with EPIPE
          /\ \E k \in 0..Len(src), failed \in BOOLEAN :
               /\ k < Len(src) => failed
               /\ source' = SubSeq(src, k + 1, Len(src))
               /\ calls' = IF failed THEN Append(calls, ReadFails) ELSE calls
          /\ ibuf' = buf
          /\ CloseFds(<<infd>>)
          /\ infd' = -1
          /\ pc' = "pipe_out"
          /\ UNCHANGED <<ret, childIn, opened, child>>
       \/ /\ infd # -1 /\ infd \in wmask
          /\ buf # <<>>                      \* write fails with EAGAIN or EINTR
          /\ child.inOpen
          /\ ibuf' = buf /\ source' = src
          /\ pc' = "pipe_out"
          /\ UNCHANGED <<ret, infd, childIn, fdVars, child, calls>>
       \/ /\ infd # -1 /\ infd \in wmask
          /\ buf # <<>>                      \* write fails with another error
          /\ child.inOpen
          /\ ibuf' = buf /\ source' = src
          /\ PipeReturnFail
          /\ UNCHANGED <<infd, childIn, fdVars, child, calls>>
       \/ /\ infd # -1 /\ infd \in wmask
          /\ buf # <<>>                      \* write takes r bytes
          /\ child.inOpen
          /\ \E r \in 1..Len(buf) :
               /\ childIn' = childIn \o SubSeq(buf, 1, r)
               /\ ibuf' = SubSeq(buf, r + 1, Len(buf))
          /\ source' = src
          /\ pc' = "pipe_out"
          /\ UNCHANGED <<ret, infd, fdVars, child, calls>>
    /\ UNCHANGED <<cfgVars, cbVars, pid, outfd, errfd, rmask, wmask, ebuf, status,
                   waits, wcaller, handed, cache, delivered, quit,
                   outPipe, errPipe, childOut, childErr, sigs,
                   smtpVars, foldVars, waitVars, recvVars>>

\* What read(fd, obuf, size) takes from a pipe holding bytes.
ReadLen(pipe, size) == Min(Len(pipe), size)

\* Handling of stdout that hands on one byte less than read() returned.
PipeOut_short_block ==
    /\ pc = "pipe_out"
    /\ \/ /\ ~(outfd # -1 /\ outfd \in rmask)
          /\ pc' = "pipe_err"
          /\ UNCHANGED <<ret, outfd, calls, handed, outPipe, fdVars>>
       \/ /\ outfd # -1 /\ outfd \in rmask
          /\ outPipe # <<>>
          /\ LET r == ReadLen(outPipe, sizeof_obuf)
             IN  /\ handed' = handed \o SubSeq(outPipe, 1, r - 1)
                 /\ outPipe' = SubSeq(outPipe, r + 1, Len(outPipe))
          /\ \E ok \in BOOLEAN :
               IF ok THEN pc' = "pipe_err" /\ ret' = ret ELSE PipeReturnFail
          /\ UNCHANGED <<outfd, calls, fdVars>>
       \/ /\ outfd # -1 /\ outfd \in rmask
          /\ outPipe = <<>> /\ ~child.outOpen
          /\ CloseFds(<<outfd>>)
          /\ outfd' = -1
          /\ pc' = "pipe_err"
          /\ UNCHANGED <<ret, calls, handed, outPipe, opened>>
    /\ UNCHANGED <<cfgVars, cbVars, pid, infd, errfd, rmask, wmask, ibuf, ebuf,
                   status, waits, wcaller, source, cache, delivered, quit,
                   child, errPipe, childOut, childErr, childIn, sigs,
                   smtpVars, foldVars, waitVars, recvVars>>

\* Handling of stdout, lines 890-916.
PipeOut ==
    /\ pc = "pipe_out"
    /\ \/ /\ ~(outfd # -1 /\ outfd \in rmask)
          /\ pc' = "pipe_err"
          /\ UNCHANGED <<ret, outfd, calls, handed, outPipe, fdVars>>
       \/ /\ outfd # -1 /\ outfd \in rmask
          /\ outPipe # <<>>                  \* r > 0
          /\ LET r == ReadLen(outPipe, sizeof_obuf)
             IN  /\ handed' = handed \o SubSeq(outPipe, 1, r)
                 /\ outPipe' = SubSeq(outPipe, r + 1, Len(outPipe))
          /\ \E ok \in BOOLEAN :
               IF ok THEN pc' = "pipe_err" /\ ret' = ret ELSE PipeReturnFail
          /\ UNCHANGED <<outfd, calls, fdVars>>
       \/ /\ outfd # -1 /\ outfd \in rmask
          /\ outPipe = <<>> /\ ~child.outOpen      \* r = 0
          /\ CloseFds(<<outfd>>)
          /\ outfd' = -1
          /\ pc' = "pipe_err"
          /\ UNCHANGED <<ret, calls, handed, outPipe, opened>>
       \/ /\ outfd # -1 /\ outfd \in rmask   \* EINTR or EAGAIN
          /\ pc' = "pipe_err"
          /\ UNCHANGED <<ret, outfd, calls, handed, outPipe, fdVars>>
       \/ /\ outfd # -1 /\ outfd \in rmask   \* another error
          /\ PipeReturnFail
          /\ UNCHANGED <<outfd, calls, handed, outPipe, fdVars>>
    /\ UNCHANGED <<cfgVars, cbVars, pid, infd, errfd, rmask, wmask, ibuf, ebuf,
                   status, waits, wcaller, source, cache, delivered, quit,
                   child, errPipe, childOut, childErr, childIn, sigs,
                   smtpVars, foldVars, waitVars, recvVars>>

\* Handling of stderr, lines 918-946.
PipeErr ==
    /\ pc = "pipe_err"
    /\ \/ /\ ~(errfd # -1 /\ errfd \in rmask)
          /\ pc' = "pipe_quit"
          /\ UNCHANGED <<ret, errfd, ebuf, errPipe, fdVars>>
       \/ /\ errfd # -1 /\ errfd \in rmask   \* EINTR or EAGAIN
          /\ pc' = "pipe_quit"
          /\ UNCHANGED <<ret, errfd, ebuf, errPipe, fdVars>>
       \/ /\ errfd # -1 /\ errfd \in rmask   \* another error
          /\ PipeReturnFail
          /\ UNCHANGED <<errfd, ebuf, errPipe, fdVars>>
       \/ /\ errfd # -1 /\ errfd \in rmask
          /\ errPipe = <<>> /\ ~child.errOpen      \* r = 0
          /\ CloseFds(<<errfd>>)
          /\ errfd' = -1
          /\ pc' = "pipe_quit"
          /\ UNCHANGED <<ret, ebuf, errPipe, opened>>
       \/ /\ errfd # -1 /\ errfd \in rmask
          /\ errPipe # <<>>                  \* r > 0
          /\ LET r == ReadLen(errPipe, sizeof_obuf - 1)
             IN  /\ ebuf' = buffer_reject_message(SubSeq(errPipe, 1, r), ebuf,
                                                  sizeof_ebuf)
                 /\ errPipe' = SubSeq(errPipe, r + 1, Len(errPipe))
          /\ pc' = "pipe_quit"
          /\ UNCHANGED <<ret, errfd, fdVars>>
    /\ UNCHANGED <<cfgVars, cbVars, pid, infd, outfd, rmask, wmask, ibuf, status,
                   waits, wcaller, fwVars, child, outPipe, childOut, childErr,
                   childIn, sigs, smtpVars, foldVars, waitVars, recvVars>>

\* sp_is_quit at the end of an iteration, lines 948-949.
PipeQuit ==
    /\ pc = "pipe_quit"
    /\ IF quit THEN PipeReturnFail ELSE pc' = "pipe_select" /\ ret' = ret
    /\ rmask' = {} /\ wmask' = {}          \* FD_ZERO of the next iteration
    /\ UNCHANGED <<cfgVars, cbVars, pid, infd, outfd, errfd, ibuf,
                   ebuf, status, waits, wcaller, fwVars, childVars, fdVars,
                   smtpVars, foldVars, waitVars, recvVars>>

\* After the loop: sp_write_data(sp, NULL, 0) and the call of wait_process,
\* lines 952-958 and 1078-1079.
PipeCloseSink ==
    /\ pc = "pipe_closesink"
    /\ \E ok \in BOOLEAN :
         /\ calls' = Append(calls, Call("write_data", <<"close">>, ok))
         /\ IF ok
            THEN /\ waits' = WaitBudget
                 /\ status' = ExitStatus(0)
                 /\ wcaller' = "reap"
                 /\ pc' = "wait_poll"
                 /\ ret' = ret
            ELSE /\ PipeReturnFail
                 /\ UNCHANGED <<waits, status, wcaller>>
    /\ UNCHANGED <<cfgVars, cbVars, pid, infd, outfd, errfd, rmask, wmask, ibuf,
                   ebuf, source, handed, cache, delivered, quit, childVars,
                   fdVars, smtpVars, foldVars, waitVars, recvVars>>


(***************************************************************************)
(* wait_process and kill_process, lines 1075-1138.                         *)
(***************************************************************************)
IsPipe == g_pxstate.filter_type = FILTER_PIPE

\* The process a pid names for waitpid and kill: the filter child for its
\* own pid, and any child of the process for -1.
Names(p) == p = ChildPid \/ p = -1

\* Where wait_process returns to with result res; its counter is no more.
WaitReturns(res) ==
    /\ waits' = 0
    /\ IF wcaller = "reap"
       THEN IF res = 0
            THEN /\ pc' = IF IsPipe THEN "pipe_status" ELSE "file_status"
                 /\ ret' = ret
            ELSE /\ pc' = IF IsPipe THEN "pipe_cleanup" ELSE "file_cleanup"
                 /\ ret' = -1
       ELSE /\ pc' = IF res = 0
                     THEN (IF IsPipe THEN "pipe_return" ELSE "file_return")
                     ELSE "kill_kill"
            /\ ret' = ret

\* wait_process taking ECHILD and ESRCH for failures like any other error.
wait_process_gone_is_error ==
    /\ pc = "wait_poll"
    /\ \/ /\ waits > 0
          /\ Names(pid) /\ child.st = "zombie"
          /\ status' = child.status
          /\ child' = Reaped(child)
          /\ WaitReturns(0)
       \/ /\ waits > 0
          /\ Names(pid) /\ child.st = "run"
          /\ waits' = waits - 1
          /\ UNCHANGED <<pc, ret, status, child>>
       \/ /\ waits > 0
          /\ ~(Names(pid) /\ child.st \in {"zombie", "run"})
          /\ WaitReturns(-1)
          /\ UNCHANGED <<status, child>>
       \/ /\ waits <= 0
          /\ WaitReturns(-1)
          /\ UNCHANGED <<status, child>>
    /\ UNCHANGED <<cfgVars, cbVars, pid, infd, outfd, errfd, rmask, wmask, ibuf,
                   ebuf, wcaller, fwVars, outPipe, errPipe, childOut, childErr,
                   childIn, sigs, fdVars, smtpVars, foldVars, waitVars, recvVars>>

\* One turn of the loop of wait_process, lines 1081-1107.  waitpid with
\* WNOHANG gives the pid of a zombie and reaps it, 0 for a running child
\* (kill(pid, 0) then succeeds), and ECHILD, or on Linux 0 with kill(pid, 0)
\* failing with ESRCH, for a child that is no more; it has no other error
\* under WNOHANG.
wait_process ==
    /\ pc = "wait_poll"
    /\ \/ /\ waits > 0
          /\ Names(pid) /\ child.st = "zombie"
          /\ status' = child.status
          /\ child' = Reaped(child)
          /\ WaitReturns(0)
       \/ /\ waits > 0
          /\ Names(pid) /\ child.st = "run"
          /\ waits' = waits - 1
          /\ UNCHANGED <<pc, ret, status, child>>
       \/ /\ waits > 0
          /\ ~(Names(pid) /\ child.st \in {"zombie", "run"})
          /\ WaitReturns(0)
          /\ UNCHANGED <<status, child>>
       \/ /\ waits <= 0
          /\ WaitReturns(-1)
          /\ UNCHANGED <<status, child>>
    /\ UNCHANGED <<cfgVars, cbVars, pid, infd, outfd, errfd, rmask, wmask, ibuf,
                   ebuf, wcaller, fwVars, outPipe, errPipe, childOut, childErr,
                   childIn, sigs, fdVars, smtpVars, foldVars, waitVars, recvVars>>

\* What a signal does to the child: SIGKILL ends it, and SIGTERM ends it
\* unless the command ignores or handles it (ignores).
Signalled(c, sig, ignores) ==
    IF c.st = "run" /\ (sig = SIGKILL \/ ~ignores)
    THEN [c EXCEPT !.st = "zombie", !.status = SignalStatus, !.inOpen = FALSE,
                   !.outOpen = FALSE, !.errOpen = FALSE]
    ELSE c

\* kill(pid, sig) fails with ESRCH when pid names no process; kill(-1, sig)
\* signals every process the daemon may signal.
NoSuchProcess(p) == p = ChildPid /\ child.st \in {"none", "reaped"}

\* kill_process going from SIGTERM to SIGKILL without the wait in between.
KillTerm_without_wait ==
    /\ pc = "kill_term"
    /\ IF NoSuchProcess(pid)
       THEN /\ pc' = IF IsPipe THEN "pipe_return" ELSE "file_return"
            /\ UNCHANGED <<child, sigs, waits, status, wcaller>>
       ELSE /\ sigs' = Append(sigs, <<pid, SIGTERM>>)
            /\ \E ignores \in BOOLEAN : child' = Signalled(child, SIGTERM, ignores)
            /\ waits' = 0
            /\ status' = ExitStatus(0)
            /\ wcaller' = "kill"
            /\ pc' = "kill_kill"
    /\ UNCHANGED <<cfgVars, cbVars, ret, pid, infd, outfd, errfd, rmask, wmask,
                   ibuf, ebuf, fwVars, outPipe, errPipe, childOut, childErr,
                   childIn, fdVars, smtpVars, foldVars, waitVars, recvVars>>

\* kill_process up to its wait_process, lines 1114-1123.
KillTerm ==
    /\ pc = "kill_term"
    /\ IF NoSuchProcess(pid)
       THEN /\ pc' = IF IsPipe THEN "pipe_return" ELSE "file_return"
            /\ UNCHANGED <<child, sigs, waits, status, wcaller>>
       ELSE /\ sigs' = Append(sigs, <<pid, SIGTERM>>)
            /\ \E ignores \in BOOLEAN : child' = Signalled(child, SIGTERM, ignores)
            /\ waits' = WaitBudget
            /\ status' = ExitStatus(0)
            /\ wcaller' = "kill"
            /\ pc' = "wait_poll"
    /\ UNCHANGED <<cfgVars, cbVars, ret, pid, infd, outfd, errfd, rmask, wmask,
                   ibuf, ebuf, fwVars, outPipe, errPipe, childOut, childErr,
                   childIn, fdVars, smtpVars, foldVars, waitVars, recvVars>>

\* kill_process after wait_process timed out, lines 1125-1137: SIGKILL, and
\* return without another wait.
KillKill ==
    /\ pc = "kill_kill"
    /\ IF NoSuchProcess(pid)
       THEN UNCHANGED <<child, sigs>>
       ELSE /\ sigs' = Append(sigs, <<pid, SIGKILL>>)
            /\ child' = Signalled(child, SIGKILL, FALSE)
    /\ pc' = IF IsPipe THEN "pipe_return" ELSE "file_return"
    /\ UNCHANGED <<cfgVars, cbVars, ret, pid, infd, outfd, errfd, rmask, wmask,
                   ibuf, ebuf, status, waits, wcaller, fwVars, outPipe, errPipe,
                   childOut, childErr, childIn, fdVars, smtpVars, foldVars, waitVars, recvVars>>

(***************************************************************************)
(* Exit-status translation, cleanup and return.                            *)
(***************************************************************************)
\* WIFEXITED / WEXITSTATUS and what follows, lines 964-995 and 574-605.
\* filtered says whether sp_write_data built the body (pipe mode).
Translate(filtered) ==
    /\ pid' = 0
    /\ IF ~status.exited
       THEN /\ ret' = -1
            /\ UNCHANGED <<calls, ebuf, delivered>>
       ELSE IF status.code = 0
       THEN \E ok \in BOOLEAN :
              /\ calls' = calls \o <<Call("done_data", Header, ok)>>
                               \o (IF ok THEN <<AddLog(STATUS_FILTERED)>> ELSE <<>>)
              /\ delivered' = IF ok THEN Committed(filtered) ELSE delivered
              /\ ret' = IF ok THEN 0 ELSE -1
              /\ ebuf' = ebuf
       ELSE \E ok \in BOOLEAN :
              LET reason == final_reject_message(ebuf, sizeof_ebuf)
              IN  /\ ebuf' = reason
                  /\ calls' = calls \o <<Call("fail_data", reason, ok)>>
                                   \o (IF ok THEN <<AddLog(reason)>> ELSE <<>>)
                  /\ delivered' = delivered
                  /\ ret' = IF ok THEN 0 ELSE -1

PipeStatus ==
    /\ pc = "pipe_status"
    /\ Translate(TRUE)
    /\ pc' = "pipe_cleanup"
    /\ UNCHANGED <<cfgVars, cbVars, infd, outfd, errfd, rmask, wmask, ibuf,
                   status, waits, wcaller, source, handed, cache, quit,
                   childVars, fdVars, smtpVars, foldVars, waitVars, recvVars>>

\* The record of what went through the pipes and the body sink is kept for
\* as long as the message can still be committed; a pump that was given up
\* drops it with the pipes.
PumpRecord(kept) ==
    IF kept
    THEN UNCHANGED <<source, handed, childOut, childErr, childIn>>
    ELSE /\ source' = <<>> /\ handed' = <<>>
         /\ childOut' = <<>> /\ childErr' = <<>> /\ childIn' = <<>>

\* cleanup of process_pipe_command, lines 997-1010.
\* The locals the function reads no more (descriptors, masks, buffers) are
\* cleared here, and so are the bytes left in the pipes just closed.
PipeCleanup ==
    /\ pc = "pipe_cleanup"
    /\ PumpRecord(ret >= 0)
    /\ CloseFds(SelectSeq(<<infd, outfd, errfd>>, LAMBDA f : f # -1))
    /\ opened' = opened
    /\ infd' = -1 /\ outfd' = -1 /\ errfd' = -1
    /\ rmask' = {} /\ wmask' = {}
    /\ ibuf' = <<>> /\ ebuf' = <<>>
    /\ outPipe' = <<>> /\ errPipe' = <<>>
    /\ child' = [child EXCEPT !.inOpen = FALSE, !.outOpen = FALSE, !.errOpen = FALSE]
    /\ pc' = IF pid # 0 THEN "kill_term" ELSE "pipe_return"
    /\ UNCHANGED <<cfgVars, cbVars, ret, pid, status, waits, wcaller, calls,
                   cache, delivered, quit, sigs, smtpVars, foldVars, waitVars, recvVars>>

\* cb_check_data calling sp_fail_data(ctx, NULL) whatever r was.
ReturnToCallback_fails_always ==
    \E ok \in BOOLEAN :
       /\ calls' = calls \o (IF ret < 0 THEN <<AddLog(STATUS_FILTER_ERROR)>> ELSE <<>>)
                         \o <<Call("fail_data", NULL, ok)>>
       /\ dataRet' = <<IF ok THEN 0 ELSE -1>>

\* The end of a process_*_command and of cb_check_data: status=FILTER-ERROR
\* for ret < 0 (lines 1012-1015, 618-621), then sp_fail_data(ctx, NULL) for
\* r == -1 (lines 281-287).
ReturnToCallback ==
    IF ret < 0
    THEN \E ok \in BOOLEAN :
           /\ calls' = calls \o <<AddLog(STATUS_FILTER_ERROR),
                                  Call("fail_data", NULL, ok)>>
           /\ dataRet' = <<IF ok THEN 0 ELSE -1>>
    ELSE /\ calls' = calls
         /\ dataRet' = <<0>>

PipeReturn ==
    /\ pc = "pipe_return"
    /\ ReturnToCallback
    /\ pc' = "done"
    /\ UNCHANGED <<cfgVars, preRet, pumpVars, source, handed, cache, delivered,
                   quit, childVars, fdVars, smtpVars, foldVars, waitVars, recvVars>>


(***************************************************************************)
(* process_file_command, lines 493-622.                                    *)
(***************************************************************************)
FileReturnFail ==
    /\ ret' = -1
    /\ pc' = "file_cleanup"

\* sp_cache_data, lines 507-508.
FileCache ==
    /\ pc = "file_cache"
    /\ \E ok \in BOOLEAN :
         /\ calls' = Append(calls, Call("cache_data", NULL, ok))
         /\ IF ok
            THEN /\ cache' = Spooled(source)
                 /\ source' = <<>>
                 /\ pc' = "file_fork"
                 /\ ret' = ret
            ELSE /\ FileReturnFail
                 /\ UNCHANGED <<cache, source>>
    /\ UNCHANGED <<cfgVars, cbVars, pid, infd, outfd, errfd, rmask, wmask, ibuf,
                   ebuf, status, waits, wcaller, handed, delivered, quit,
                   childVars, fdVars, smtpVars, foldVars, waitVars, recvVars>>

\* fork_filter(sp, NULL, NULL, &errfd), lines 510-512.
FileFork ==
    /\ pc = "file_fork"
    /\ \/ /\ ForkFilterOk(FALSE, FALSE, TRUE)
          /\ errfd' = PipeE[READ_END]
          /\ ret' = ret
          /\ pc' = "file_select"
       \/ /\ \E n \in 1..2 : ForkFilterFails(FALSE, FALSE, TRUE, n)
          /\ errfd' = errfd
          /\ FileReturnFail
    /\ UNCHANGED <<cfgVars, cbVars, infd, outfd, rmask, wmask, ibuf, ebuf, status,
                   waits, wcaller, fwVars, outPipe, errPipe, childOut, childErr,
                   childIn, sigs, smtpVars, foldVars, waitVars, recvVars>>

\* The loop going on to read when select timed out.
FileSelect_timeout_goes_on ==
    /\ pc = "file_select"
    /\ \/ /\ PipeE[READ_END] = errfd /\ ErrReadable
          /\ rmask' = {errfd}
          /\ pc' = "file_read"
          /\ ret' = ret
       \/ /\ ~ErrReadable                    \* timeout
          /\ rmask' = rmask
          /\ pc' = "file_read"
          /\ ret' = ret
       \/ /\ FileReturnFail                  \* select returns -1
          /\ rmask' = rmask
    /\ UNCHANGED <<cfgVars, cbVars, pid, infd, outfd, errfd, wmask, ibuf, ebuf,
                   status, waits, wcaller, fwVars, childVars, fdVars, smtpVars,
                   foldVars, waitVars, recvVars>>

\* The loop test and select on errfd, lines 515-535.
FileSelect ==
    /\ pc = "file_select"
    /\ \/ /\ PipeE[READ_END] = errfd /\ ErrReadable
          /\ rmask' = {errfd}
          /\ pc' = "file_read"
          /\ ret' = ret
       \/ /\ ~ErrReadable                    \* timeout
          /\ FileReturnFail
          /\ rmask' = rmask
       \/ /\ FileReturnFail                  \* select returns -1
          /\ rmask' = rmask
    /\ UNCHANGED <<cfgVars, cbVars, pid, infd, outfd, errfd, wmask, ibuf, ebuf,
                   status, waits, wcaller, fwVars, childVars, fdVars, smtpVars,
                   foldVars, waitVars, recvVars>>

\* read and what follows it in the loop, lines 537-572: EINTR and EAGAIN
\* continue, end of file leaves the loop for wait_process, and bytes are
\* folded into ebuf before sp_is_quit is asked.
FileRead ==
    /\ pc = "file_read"
    /\ rmask' = {}                          \* FD_ZERO of the next iteration
    /\ \/ /\ pc' = "file_select"             \* EINTR or EAGAIN
          /\ UNCHANGED <<ret, errfd, ebuf, errPipe, fdVars, waits, status, wcaller>>
       \/ /\ FileReturnFail                  \* another error
          /\ UNCHANGED <<errfd, ebuf, errPipe, fdVars, waits, status, wcaller>>
       \/ /\ errPipe = <<>> /\ ~child.errOpen      \* r = 0
          /\ CloseFds(<<errfd>>)
          /\ errfd' = -1
          /\ waits' = WaitBudget
          /\ status' = ExitStatus(0)
          /\ wcaller' = "reap"
          /\ pc' = "wait_poll"
          /\ UNCHANGED <<ret, ebuf, errPipe, opened>>
       \/ /\ errPipe # <<>>                  \* r > 0
          /\ LET r == ReadLen(errPipe, sizeof_obuf - 1)
             IN  /\ ebuf' = buffer_reject_message(SubSeq(errPipe, 1, r), ebuf,
                                                  sizeof_ebuf)
                 /\ errPipe' = SubSeq(errPipe, r + 1, Len(errPipe))
          /\ IF quit THEN FileReturnFail ELSE pc' = "file_select" /\ ret' = ret
          /\ UNCHANGED <<errfd, fdVars, waits, status, wcaller>>
    /\ UNCHANGED <<cfgVars, cbVars, pid, infd, outfd, wmask, ibuf, fwVars,
                   child, outPipe, childOut, childErr, childIn, sigs, smtpVars,
                   foldVars, waitVars, recvVars>>

FileStatus ==
    /\ pc = "file_status"
    /\ Translate(FALSE)
    /\ pc' = "file_cleanup"
    /\ UNCHANGED <<cfgVars, cbVars, infd, outfd, errfd, rmask, wmask, ibuf,
                   status, waits, wcaller, source, handed, cache, quit,
                   childVars, fdVars, smtpVars, foldVars, waitVars, recvVars>>

\* cleanup of process_file_command up to kill_process, lines 607-613.
FileCleanup ==
    /\ pc = "file_cleanup"
    /\ pc' = IF pid # 0 THEN "kill_term" ELSE "file_return"
    /\ rmask' = {}
    /\ ebuf' = <<>>
    /\ UNCHANGED <<cfgVars, cbVars, ret, pid, infd, outfd, errfd, wmask, ibuf,
                   status, waits, wcaller, fwVars, childVars, fdVars,
                   smtpVars, foldVars, waitVars, recvVars>>

\* The rest of cleanup, lines 615-621, and the end of cb_check_data.
FileReturn ==
    /\ pc = "file_return"
    /\ CloseFds(SelectSeq(<<errfd>>, LAMBDA f : f # -1))
    /\ opened' = opened
    /\ errfd' = -1
    /\ errPipe' = <<>>
    /\ child' = [child EXCEPT !.errOpen = FALSE]
    /\ ReturnToCallback
    /\ pc' = "done"
    /\ UNCHANGED <<cfgVars, preRet, ret, pid, infd, outfd, rmask, wmask, ibuf,
                   ebuf, status, waits, wcaller, source, handed, cache,
                   delivered, quit, outPipe, childOut, childErr, childIn,
                   sigs, smtpVars, foldVars, waitVars, recvVars>>

(***************************************************************************)
(* smtp_command and process_smtp_command, lines 624-765.                   *)
(***************************************************************************)
\* The reply lines the downstream server gives: a code and the rest.
Replies ==
    {<<code, "\r", "\n">> : code \in {"220", "250", "354"}}
        \cup {<<"550", " no such user", "\r", "\n">>}

\* What the network does with one smtp_command: sent says that send() took
\* the whole command (there is none to take when data is NULL), and reply is
\* what recv() gave, NULL for 0 or -1.
Outcomes(data) ==
    {o \in [sent : BOOLEAN, reply : Replies \cup {NULL}] :
        /\ data = NULL => o.sent
        /\ ~o.sent => o.reply = NULL}

\* smtp_command(s, data, resp, &resp_data), lines 624-638: its result r and
\* the copy of the reply it leaves in resp_data.
smtp_command(data, resp, o) ==
    [r |-> IF /\ o.sent
              /\ o.reply # NULL
              /\ (resp = NULL \/ Head(o.reply) = Head(resp))
           THEN 0 ELSE -1,
     resp_data |-> IF o.sent THEN o.reply ELSE NULL]

\* What one smtp_command leaves on the wire: the command when send() took
\* it, and the reply when recv() gave one.
Wire(data, o) ==
    /\ sent' = IF data # NULL /\ o.sent THEN Append(sent, data) ELSE sent
    /\ rcvd' = IF o.sent /\ o.reply # NULL THEN Append(rcvd, o.reply) ELSE rcvd

SmtpReturn(r) ==
    /\ ret' = r
    /\ pc' = "smtp_cleanup"

smtpLocals == <<pid, infd, outfd, errfd, rmask, wmask, ibuf, ebuf, status, waits,
                wcaller, handed, quit, childVars, foldVars, waitVars, recvVars>>

\* sp_cache_data and the test of sender and recipients, lines 649-655.
SmtpCache ==
    /\ pc = "smtp_cache"
    /\ \E ok \in BOOLEAN :
         /\ calls' = Append(calls, Call("cache_data", NULL, ok))
         /\ cache' = IF ok THEN Spooled(source) ELSE cache
         /\ source' = IF ok THEN <<>> ELSE source
         /\ IF ok /\ envelope.sender # NULL /\ envelope.recipients # NULL
            THEN pc' = "smtp_connect" /\ ret' = ret
            ELSE SmtpReturn(-1)
    /\ UNCHANGED <<cfgVars, cbVars, smtpLocals, delivered, fdVars, smtpVars>>

\* socket() and connect(), lines 657-670.
SmtpConnect ==
    /\ pc = "smtp_connect"
    /\ \/ /\ SmtpReturn(-1)                      \* socket() fails
          /\ UNCHANGED <<sock, fdVars>>
       \/ /\ sock' = SockFd
          /\ opened' = opened \cup {SockFd}
          /\ fdopen' = fdopen \cup {SockFd}
          /\ UNCHANGED <<closes, stray>>
          /\ \/ SmtpReturn(-1)                   \* connect() fails
             \/ pc' = "smtp_greeting" /\ ret' = ret
    /\ UNCHANGED <<cfgVars, cbVars, smtpLocals, calls, source, cache, delivered,
                   cachefd, sent, sentBody, rcvd, last_line, rcpts>>

\* One smtp_command going on with whatever reply recv gave.
SmtpStep_any_reply(at, data, resp, next) ==
    /\ pc = at
    /\ \E o \in Outcomes(data) :
         /\ Wire(data, o)
         /\ IF smtp_command(data, NULL, o).r = 0
            THEN pc' = next /\ ret' = ret
            ELSE SmtpReturn(-1)
    /\ UNCHANGED <<cfgVars, cbVars, smtpLocals, calls, source, cache, delivered,
                   fdVars, sock, cachefd, sentBody, last_line>>

\* One smtp_command whose reply is not kept, and the RETURN(-1) after it.
SmtpStep(at, data, resp, next) ==
    /\ pc = at
    /\ \E o \in Outcomes(data) :
         /\ Wire(data, o)
         /\ IF smtp_command(data, resp, o).r = 0
            THEN pc' = next /\ ret' = ret
            ELSE SmtpReturn(-1)
    /\ UNCHANGED <<cfgVars, cbVars, smtpLocals, calls, source, cache, delivered,
                   fdVars, sock, cachefd, sentBody, last_line>>

EHLO == <<"EHLO proxsmtp\r\n">>
XCLIENT == <<"XCLIENT ADDR=", "peername", "\r\n">>
MAIL_FROM(sender) == <<"MAIL FROM: ">> \o sender \o <<"\r\n">>
RCPT_TO(token) == <<"RCPT TO: ">> \o token \o <<"\r\n">>
DATA == <<"DATA\r\n">>
Terminator == <<".\r\n">>
SMTP_QUIT == <<"QUIT\r\n">>

\* Lines 672-675.
SmtpGreeting ==
    /\ SmtpStep("smtp_greeting", NULL, <<"220">>, "smtp_ehlo")
    /\ rcpts' = rcpts

\* Lines 677-681.
SmtpEhlo ==
    /\ SmtpStep("smtp_ehlo", EHLO, <<"250">>, "smtp_xclient")
    /\ rcpts' = rcpts

\* Lines 683-690.
SmtpXclient ==
    /\ SmtpStep("smtp_xclient", XCLIENT, <<"220">>, "smtp_mail")
    /\ rcpts' = rcpts

\* Lines 692-696, and r = strdup(sp->recipients) of line 698.
SmtpMail ==
    /\ SmtpStep("smtp_mail", MAIL_FROM(envelope.sender), <<"250">>, "smtp_rcpt")
    /\ rcpts' = envelope.recipients

\* The strsep loop taking a refused recipient for a failed command.
SmtpRcpt_refusal_is_error ==
    /\ pc = "smtp_rcpt"
    /\ rcpts' = strsep(rcpts).r
    /\ IF strsep(rcpts).token = NULL
       THEN /\ pc' = "smtp_data"
            /\ UNCHANGED <<ret, sent, rcvd, last_line, calls>>
       ELSE LET str == RCPT_TO(strsep(rcpts).token)
            IN  \E o \in Outcomes(str) :
                  LET c == smtp_command(str, <<"250">>, o)
                  IN  /\ Wire(str, o)
                      /\ IF c.r = 0
                         THEN /\ last_line' = NULL
                              /\ pc' = "smtp_rcpt"
                              /\ UNCHANGED <<ret, calls>>
                         ELSE /\ last_line' = c.resp_data
                              /\ SmtpReturn(-1)
                              /\ UNCHANGED calls
    /\ UNCHANGED <<cfgVars, cbVars, smtpLocals, source, cache, delivered, fdVars,
                   sock, cachefd, sentBody>>

\* One turn of the strsep loop, lines 700-715: the loop is left when strsep
\* gives no token; a token goes out as RCPT TO, and a reply that is not 250
\* fails the DATA command with the reply, trimmed.
SmtpRcpt ==
    /\ pc = "smtp_rcpt"
    /\ rcpts' = strsep(rcpts).r
    /\ IF strsep(rcpts).token = NULL
       THEN /\ pc' = "smtp_data"
            /\ UNCHANGED <<ret, sent, rcvd, last_line, calls>>
       ELSE LET str == RCPT_TO(strsep(rcpts).token)
            IN  \E o \in Outcomes(str) :
                  LET c == smtp_command(str, <<"250">>, o)
                  IN  /\ Wire(str, o)
                      /\ IF c.r = 0
                         THEN /\ last_line' = NULL
                              /\ pc' = "smtp_rcpt"
                              /\ UNCHANGED <<ret, calls>>
                         ELSE IF c.resp_data = NULL
                         THEN /\ SmtpReturn(-1)
                              /\ UNCHANGED <<last_line, calls>>
                         ELSE /\ last_line' = trim_end(c.resp_data)
                              /\ \E ok \in BOOLEAN :
                                   /\ calls' = calls \o <<Call("fail_data", last_line', ok)>>
                                                    \o (IF ok THEN <<AddLog(last_line')>> ELSE <<>>)
                                   /\ SmtpReturn(IF ok THEN 0 ELSE -1)
    /\ UNCHANGED <<cfgVars, cbVars, smtpLocals, source, cache, delivered, fdVars,
                   sock, cachefd, sentBody>>

\* Lines 717-721.
SmtpData ==
    /\ SmtpStep("smtp_data", DATA, <<"354">>, "smtp_open")
    /\ rcpts' = rcpts

\* open(sp->cachename), lines 723-726.
SmtpOpen ==
    /\ pc = "smtp_open"
    /\ \/ /\ SmtpReturn(-1)
          /\ UNCHANGED <<cachefd, fdVars>>
       \/ /\ cachefd' = CacheFd
          /\ opened' = opened \cup {CacheFd}
          /\ fdopen' = fdopen \cup {CacheFd}
          /\ UNCHANGED <<closes, stray>>
          /\ pc' = "smtp_body" /\ ret' = ret
    /\ UNCHANGED <<cfgVars, cbVars, smtpLocals, calls, source, cache, delivered,
                   sock, sent, sentBody, rcvd, last_line, rcpts>>

\* The read and send loop, lines 728-731: n bytes of the cache file go out,
\* then read gives 0 at the end of the file, or -1, and the loop is left, or
\* a send is short and the function returns.
SmtpBody ==
    /\ pc = "smtp_body"
    /\ \E n \in 0..Len(cache) :
         /\ sentBody' = SubSeq(cache, 1, n)
         /\ \/ n = Len(cache) /\ pc' = "smtp_end" /\ ret' = ret   \* read gives 0
            \/ pc' = "smtp_end" /\ ret' = ret                     \* read gives -1
            \/ n < Len(cache) /\ SmtpReturn(-1)                   \* send is short
    /\ UNCHANGED <<cfgVars, cbVars, smtpLocals, calls, source, cache, delivered,
                   fdVars, sock, cachefd, sent, rcvd, last_line, rcpts>>

\* The end of the relay committing whatever the server answered to the
\* terminator.
SmtpEnd_commits_any_reply ==
    /\ pc = "smtp_end"
    /\ \E o \in Outcomes(Terminator), quitSent \in BOOLEAN :
         LET c == smtp_command(Terminator, NULL, o)
             line == trim_end(c.resp_data)
             afterDot == IF o.sent THEN Append(sent, Terminator) ELSE sent
         IN  /\ rcvd' = IF o.sent /\ o.reply # NULL THEN Append(rcvd, o.reply) ELSE rcvd
             /\ IF c.r = -1
                THEN /\ sent' = afterDot
                     /\ last_line' = c.resp_data
                     /\ SmtpReturn(-1)
                     /\ UNCHANGED <<calls, delivered>>
                ELSE /\ sent' = IF quitSent THEN Append(afterDot, SMTP_QUIT) ELSE afterDot
                     /\ last_line' = line
                     /\ \E ok \in BOOLEAN :
                          /\ SmtpReturn(IF ok THEN 0 ELSE -1)
                          /\ calls' = calls \o <<Call("done_data", Header, ok)>>
                                       \o (IF ok THEN <<AddLog(STATUS_FILTERED)>> ELSE <<>>)
                          /\ delivered' = IF ok THEN Committed(FALSE) ELSE delivered
    /\ UNCHANGED <<cfgVars, cbVars, smtpLocals, source, cache, fdVars, sock,
                   cachefd, sentBody, rcpts>>

\* The terminator, QUIT and the verdict, lines 733-753.
SmtpEnd ==
    /\ pc = "smtp_end"
    /\ \E o \in Outcomes(Terminator), quitSent \in BOOLEAN :
         LET c == smtp_command(Terminator, NULL, o)
             line == trim_end(c.resp_data)
             afterDot == IF o.sent THEN Append(sent, Terminator) ELSE sent
         IN  /\ rcvd' = IF o.sent /\ o.reply # NULL THEN Append(rcvd, o.reply) ELSE rcvd
             /\ IF c.r = -1
                THEN /\ sent' = afterDot
                     /\ last_line' = c.resp_data
                     /\ SmtpReturn(-1)
                     /\ UNCHANGED <<calls, delivered>>
                ELSE /\ sent' = IF quitSent THEN Append(afterDot, SMTP_QUIT) ELSE afterDot
                     /\ last_line' = line
                     /\ \E ok \in BOOLEAN :
                          /\ SmtpReturn(IF ok THEN 0 ELSE -1)
                          /\ IF line # <<>> /\ Head(line) = "250"
                             THEN /\ calls' = calls \o <<Call("done_data", Header, ok)>>
                                       \o (IF ok THEN <<AddLog(STATUS_FILTERED)>> ELSE <<>>)
                                  /\ delivered' = IF ok THEN Committed(FALSE) ELSE delivered
                             ELSE /\ calls' = calls \o <<Call("fail_data", line, ok)>>
                                       \o (IF ok THEN <<AddLog(line)>> ELSE <<>>)
                                  /\ delivered' = delivered
    /\ UNCHANGED <<cfgVars, cbVars, smtpLocals, source, cache, fdVars, sock,
                   cachefd, sentBody, rcpts>>

\* cleanup of process_smtp_command, lines 755-765, and the return through
\* cb_check_data.
SmtpCleanup ==
    /\ pc = "smtp_cleanup"
    /\ CloseFds(SelectSeq(<<sock, cachefd>>, LAMBDA f : f # -1))
    /\ opened' = opened
    /\ sock' = -1 /\ cachefd' = -1
    /\ last_line' = NULL
    /\ rcpts' = NULL
    /\ ReturnToCallback
    /\ pc' = "done"
    /\ UNCHANGED <<cfgVars, preRet, ret, smtpLocals, source, cache, delivered,
                   sent, sentBody, rcvd>>

(***************************************************************************)
(* The environment: the filter child, the framework's shutdown flag, and   *)
(* another connection thread running the reap-any loop of line 271.        *)
(***************************************************************************)
\* The child's output: the n-th byte it writes to stdout is n, and its
\* stderr is lines "a\n".
OutByte(n) == n
ErrByte(n) == IF n % 2 = 1 THEN "a" ELSE "\n"

\* The thread is between two suspension points (select, usleep, kill): the
\* steps of one loop iteration and the closes of cleanup are non-blocking,
\* and what the environment does during them is seen as if done before the
\* select or after them.
Busy == pc \in {"pipe_in", "pipe_out", "pipe_err", "pipe_quit", "file_read",
                "pipe_cleanup", "file_cleanup"}

envUnchanged ==
    /\ ~Busy
    /\ UNCHANGED <<cfgVars, pc, cbVars, pumpVars, fdVars, smtpVars, foldVars, waitVars, recvVars>>

ChildWritesOut ==
    /\ child.st = "run" /\ child.outOpen
    /\ Len(childOut) < MaxOut
    /\ LET b == OutByte(Len(childOut) + 1)
       IN  /\ outPipe' = Append(outPipe, b)
           /\ childOut' = Append(childOut, b)
    /\ envUnchanged
    /\ UNCHANGED <<fwVars, child, errPipe, childErr, childIn, sigs>>

ChildWritesErr ==
    /\ child.st = "run" /\ child.errOpen
    /\ Len(childErr) < MaxErr
    /\ LET b == ErrByte(Len(childErr) + 1)
       IN  /\ errPipe' = Append(errPipe, b)
           /\ childErr' = Append(childErr, b)
    /\ envUnchanged
    /\ UNCHANGED <<fwVars, child, outPipe, childOut, childIn, sigs>>

\* The child closes one of its standard streams.
ChildCloses ==
    /\ child.st = "run"
    /\ \/ child.inOpen /\ child' = [child EXCEPT !.inOpen = FALSE]
       \/ child.outOpen /\ child' = [child EXCEPT !.outOpen = FALSE]
       \/ child.errOpen /\ child' = [child EXCEPT !.errOpen = FALSE]
    /\ envUnchanged
    /\ UNCHANGED <<fwVars, outPipe, errPipe, childOut, childErr, childIn, sigs>>

ExitCodes == {0, 1}

\* The child exits, or is ended by a signal of its own (kill_myself after a
\* failed dup2 or exec, SIGPIPE, a crash).
ChildEnds ==
    /\ child.st = "run"
    /\ \E st \in {ExitStatus(c) : c \in ExitCodes} \cup {SignalStatus} :
         child' = [child EXCEPT !.st = "zombie", !.status = st, !.inOpen = FALSE,
                                !.outOpen = FALSE, !.errOpen = FALSE]
    /\ envUnchanged
    /\ UNCHANGED <<fwVars, outPipe, errPipe, childOut, childErr, childIn, sigs>>

\* Another connection's cb_check_data runs while(waitpid(-1, &r, WNOHANG) > 0)
\* (line 271) and collects the zombie.
OtherReapAny ==
    /\ child.st = "zombie"
    /\ child' = Reaped(child)
    /\ envUnchanged
    /\ UNCHANGED <<fwVars, outPipe, errPipe, childOut, childErr, childIn, sigs>>

\* The daemon starts to shut down: sp_is_quit turns true.
\* (It is read only inside the loops of the pumps, so it is let turn only
\* where an iteration is still to come.)
Quit ==
    /\ ~quit
    /\ \/ pc = "file_select"
       \/ pc = "pipe_select" /\ ~(infd = -1 /\ outfd = -1 /\ errfd = -1)
    /\ quit' = TRUE
    /\ envUnchanged
    /\ UNCHANGED <<calls, source, handed, cache, delivered, childVars>>

Next ==
    \/ cb_check_pre
    \/ SmtpCache
    \/ SmtpConnect
    \/ SmtpGreeting
    \/ SmtpEhlo
    \/ SmtpXclient
    \/ SmtpMail
    \/ SmtpRcpt
    \/ SmtpData
    \/ SmtpOpen
    \/ SmtpBody
    \/ SmtpEnd
    \/ SmtpCleanup
    \/ CheckDataReject
    \/ CheckDataStartFails
    \/ CheckDataBypass
    \/ CheckDataDispatch
    \/ PipeFork
    \/ PipeOpen
    \/ PipeSelect
    \/ PipeIn
    \/ PipeOut
    \/ PipeErr
    \/ PipeQuit
    \/ PipeCloseSink
    \/ PipeStatus
    \/ PipeCleanup
    \/ PipeReturn
    \/ FileCache
    \/ FileFork
    \/ FileSelect
    \/ FileRead
    \/ FileStatus
    \/ FileCleanup
    \/ FileReturn
    \/ wait_process
    \/ KillTerm
    \/ KillKill
    \/ ChildWritesOut
    \/ ChildWritesErr
    \/ ChildCloses
    \/ ChildEnds
    \/ OtherReapAny
    \/ Quit

Spec == Init /\ [][Next]_vars

(***************************************************************************)
(* The dispatches of pipe and file mode with a command, under fairness.    *)
(***************************************************************************)
InitLive ==
    /\ g_pxstate \in [filter_type : {FILTER_PIPE, FILTER_FILE},
                      command : {FilterCommand},
                      timeout : {FilterTimeout}]
    /\ body \in Bodies
    /\ envelope = [sender |-> Sender, recipients |-> Recipients(1)]
    /\ source = body
    /\ InitDispatch
    /\ InitFoldIdle
    /\ InitWaitIdle
    /\ InitRecvIdle

NextLive ==
    \/ CheckDataStartFails
    \/ CheckDataDispatch
    \/ PipeFork
    \/ PipeOpen
    \/ PipeSelect
    \/ PipeIn
    \/ PipeOut
    \/ PipeErr
    \/ PipeQuit
    \/ PipeCloseSink
    \/ PipeStatus
    \/ PipeCleanup
    \/ PipeReturn
    \/ FileCache
    \/ FileFork
    \/ FileSelect
    \/ FileRead
    \/ FileStatus
    \/ FileCleanup
    \/ FileReturn
    \/ wait_process
    \/ KillTerm
    \/ KillKill
    \/ ChildWritesOut
    \/ ChildWritesErr
    \/ ChildCloses
    \/ ChildEnds
    \/ OtherReapAny
    \/ Quit

\* A step of a pump that gets somewhere: bytes move through a pipe or a
\* descriptor is closed.
Advances ==
    /\ PipeIn \/ PipeOut \/ PipeErr \/ FileRead
    /\ \/ <<infd, outfd, errfd>>' # <<infd, outfd, errfd>>
       \/ <<childIn, outPipe, errPipe>>' # <<childIn, outPipe, errPipe>>

\* The threads are scheduled, the framework's calls return and the child
\* does not write forever (it is bounded here), so some step is always
\* taken while one is possible; and EINTR and EAGAIN are passing: a
\* descriptor that select reports ready again and again is not refused
\* forever.
SpecLive == InitLive /\ [][NextLive]_vars /\ WF_vars(NextLive) /\ SF_vars(Advances)


(***************************************************************************)
(* The accumulator on its own: stderr chunks folded one after the other,   *)
(* as the pumps do at lines 561 and 944, with an accumulator of BufLen     *)
(* bytes (the code's is sizeof_ebuf) and chunks of up to MaxChunkLen bytes *)
(* (the code's are up to sizeof_obuf - 1).                                 *)
(***************************************************************************)
BufLen == 4
MaxChunkLen == 3
MaxStream == 5
Alphabet == {"a", "b", " ", "\n"}
Chunks == UNION {[1..n -> Alphabet] : n \in 1..MaxChunkLen}

InitFold ==
    /\ g_pxstate = [filter_type |-> FILTER_PIPE, command |-> FilterCommand,
                    timeout |-> FilterTimeout]
    /\ body = <<>>
    /\ envelope = [sender |-> Sender, recipients |-> Recipients(1)]
    /\ source = body
    /\ InitDispatch
    /\ InitFoldIdle
    /\ InitWaitIdle
    /\ InitRecvIdle

\* buffer_reject_message(obuf, ebuf, sizeof(ebuf)) on the next chunk read.
FoldChunk ==
    /\ pc = "idle"
    /\ \E data \in Chunks :
         /\ Len(f_stream) + Len(data) <= MaxStream
         /\ f_stream' = f_stream \o data
         /\ f_buf' = buffer_reject_message(data, f_buf, BufLen)
         /\ f_oob' = (f_oob \/ ReadsBeforeBuf(data, f_buf))
    /\ UNCHANGED <<cfgVars, pc, cbVars, pumpVars, fwVars, childVars, fdVars, smtpVars,
                   waitVars, recvVars>>

\* final_reject_message(ebuf, sizeof(ebuf)) once the stream is at its end,
\* lines 987 and 597.
FoldFinal ==
    /\ pc = "idle"
    /\ ebuf' = final_reject_message(f_buf, BufLen)
    /\ pc' = "fold_final"
    /\ UNCHANGED <<cfgVars, cbVars, ret, pid, infd, outfd, errfd, rmask, wmask,
                   ibuf, status, waits, wcaller, fwVars, childVars, fdVars,
                   smtpVars, foldVars, waitVars, recvVars>>

NextFold ==
    \/ FoldChunk
    \/ FoldFinal

SpecFold == InitFold /\ [][NextFold]_vars

(***************************************************************************)
(* wait_process on its own, lines 1075-1108, against every answer waitpid  *)
(* and kill(pid, 0) can give, the errors a healthy system never gives      *)
(* included.                                                               *)
(***************************************************************************)
\* What one poll finds: r and errno of waitpid(pid, status, WNOHANG), the
\* status it stores when it reaps, and what kill(pid, 0) says when r is 0
\* (EPERM: the process is there but may not be signalled).
WaitOutcomes ==
    {[r |-> ChildPid, errno |-> "", probe |-> "", status |-> st] :
        st \in {ExitStatus(c) : c \in ExitCodes} \cup {SignalStatus}}
    \cup {[r |-> 0, errno |-> "", probe |-> p, status |-> ExitStatus(0)] :
            p \in {"ok", "ESRCH", "EPERM"}}
    \cup {[r |-> -1, errno |-> e, probe |-> "", status |-> ExitStatus(0)] :
            e \in {"ECHILD", "ESRCH", "EINTR", "EINVAL"}}

InitWait ==
    /\ g_pxstate = [filter_type |-> FILTER_PIPE, command |-> FilterCommand,
                    timeout |-> FilterTimeout]
    /\ body = <<>>
    /\ envelope = [sender |-> Sender, recipients |-> Recipients(1)]
    /\ source = body
    /\ InitDispatch
    /\ InitFoldIdle
    /\ InitWaitIdle
    /\ InitRecvIdle

waitLocals == <<cfgVars, cbVars, ret, infd, outfd, errfd, rmask, wmask, ibuf, ebuf,
                wcaller, fwVars, childVars, fdVars, smtpVars, foldVars, recvVars>>

\* The call wait_process(sp, pid, &status) and lines 1078-1079.
WaitEnter ==
    /\ pc = "idle"
    /\ pid' = ChildPid
    /\ waits' = WaitBudget
    /\ status' = ExitStatus(0)
    /\ pc' = "wait_loop"
    /\ UNCHANGED <<waitLocals, waitVars, recvVars>>

\* return r.
WaitLeaves(r) ==
    /\ w_ret' = <<r>>
    /\ pc' = "wait_return"
    /\ UNCHANGED <<waits, w_slept, w_present>>

\* wait_process with every error of waitpid falling through to return 0.
WaitTurn_error_is_gone ==
    /\ pc = "wait_loop"
    /\ IF waits > 0
       THEN \E o \in WaitOutcomes :
              /\ w_polls' = w_polls + 1
              /\ w_last' = <<o>>
              /\ status' = IF o.r = pid THEN o.status ELSE status
              /\ IF o.r = 0 /\ o.probe # "ESRCH"
                 THEN /\ w_slept' = w_slept + POLL_TIME
                      /\ w_present' = w_present + 1
                      /\ waits' = waits - 1
                      /\ UNCHANGED <<pc, w_ret>>
                 ELSE WaitLeaves(0)
       ELSE /\ WaitLeaves(-1)
            /\ UNCHANGED <<status, w_polls, w_last>>
    /\ UNCHANGED <<waitLocals, pid>>

\* One turn of while(waits > 0), lines 1081-1105, or the return -1 of line
\* 1107 when the loop is over.
WaitTurn ==
    /\ pc = "wait_loop"
    /\ IF waits > 0
       THEN \E o \in WaitOutcomes :
              /\ w_polls' = w_polls + 1
              /\ w_last' = <<o>>
              /\ status' = IF o.r = pid THEN o.status ELSE status
              /\ IF o.r = 0 /\ o.probe # "ESRCH"
                 THEN /\ w_slept' = w_slept + POLL_TIME     \* break; usleep; waits--
                      /\ w_present' = w_present + 1
                      /\ waits' = waits - 1
                      /\ UNCHANGED <<pc, w_ret>>
                 ELSE IF o.r = -1 /\ o.errno \notin {"ECHILD", "ESRCH"}
                 THEN WaitLeaves(-1)
                 ELSE WaitLeaves(0)
       ELSE /\ WaitLeaves(-1)
            /\ UNCHANGED <<status, w_polls, w_last>>
    /\ UNCHANGED <<waitLocals, pid>>

NextWait ==
    \/ WaitEnter
    \/ WaitTurn

\* The thread that runs wait_process is scheduled again and again.
SpecWait == InitWait /\ [][NextWait]_vars /\ WF_vars(NextWait)

(***************************************************************************)
(* The pump of process_pipe_command on its own, lines 789-956, fed bodies  *)
(* of several chunks.                                                      *)
(***************************************************************************)
InBodies ==
    {[i \in 1..n |-> <<2 * i - 1, 2 * i>>] : n \in 0..MaxInChunks}

InitIn ==
    /\ g_pxstate = [filter_type |-> FILTER_PIPE, command |-> FilterCommand,
                    timeout |-> FilterTimeout]
    /\ body \in InBodies
    /\ envelope = [sender |-> Sender, recipients |-> Recipients(1)]
    /\ source = body
    /\ InitDispatch
    /\ InitFoldIdle
    /\ InitWaitIdle
    /\ InitRecvIdle

NextIn ==
    \/ CheckDataDispatch
    \/ PipeFork
    \/ PipeOpen
    \/ PipeSelect
    \/ PipeIn
    \/ PipeOut
    \/ PipeErr
    \/ PipeQuit
    \/ ChildWritesOut
    \/ ChildWritesErr
    \/ ChildCloses
    \/ ChildEnds
    \/ Quit

SpecIn == InitIn /\ [][NextIn]_vars

(***************************************************************************)
(* The receiving half of smtp_command on its own, lines 630-637, against   *)
(* replies of one or more lines and every count recv can return.           *)
(***************************************************************************)
\* The replies a server sends: lines of reply codes, each ended by "\n".
ReplyTexts ==
    {s \in UNION {[1..n -> {"2", "5", "\n"}] : n \in 1..MaxReply} : s[Len(s)] = "\n"}

InitRecv ==
    /\ g_pxstate = [filter_type |-> FILTER_SMTP, command |-> FilterCommand,
                    timeout |-> FilterTimeout]
    /\ body = <<>>
    /\ envelope = [sender |-> Sender, recipients |-> Recipients(1)]
    /\ source = body
    /\ InitDispatch
    /\ InitFoldIdle
    /\ InitWaitIdle
    /\ InitRecvIdle

\* t = recv(s, buf, sizeof buf, 0) gives the first t bytes of what the
\* server sent, 1 <= t <= sizeof buf; buf[t] = '\0' is a write outside buf
\* when t = sizeof buf, after which the run either goes on with the byte
\* behind buf overwritten or is ended; strdup copies buf up to the 0, and
\* strncmp compares with resp.
SmtpRecv ==
    /\ pc = "idle"
    /\ \E reply \in ReplyTexts, t \in 1..RecvLen, resp \in {NULL, <<"2">>} :
         /\ t <= Len(reply)
         /\ r_reply' = reply
         /\ r_t' = t
         /\ r_oob' = (t > RecvLen - 1)
         /\ \/ /\ r_resp' = SubSeq(reply, 1, t)
               /\ ret' = IF resp = NULL \/ IsPrefix(resp, SubSeq(reply, 1, t))
                         THEN 0 ELSE -1
               /\ pc' = "recv_done"
            \/ /\ t > RecvLen - 1
               /\ r_resp' = NULL
               /\ ret' = ret
               /\ pc' = "recv_abort"
    /\ UNCHANGED <<cfgVars, cbVars, pid, infd, outfd, errfd, rmask, wmask, ibuf,
                   ebuf, status, waits, wcaller, fwVars, childVars, fdVars,
                   smtpVars, foldVars, waitVars>>

NextRecv == SmtpRecv

SpecRecv == InitRecv /\ [][NextRecv]_vars

(***************************************************************************)
(* Properties.                                                             *)
(***************************************************************************)
Called(op) == \E i \in 1..Len(calls) : calls[i].op = op
CalledOk(op) == \E i \in 1..Len(calls) : calls[i].op = op /\ calls[i].ok
Logged(val) == \E i \in 1..Len(calls) : calls[i] = AddLog(val)

\* The instructions cb_check_pre issued, and those issued after it.
PreCalls ==
    IF preRet # <<>> /\ g_pxstate.filter_type = FILTER_REJECT
    THEN SubSeq(calls, 1, 2) ELSE <<>>
DataCalls == SubSeq(calls, Len(PreCalls) + 1, Len(calls))

\* No child was forked, no descriptor or socket opened, no signal sent and
\* nothing handed to sp_write_data.
NothingStarted ==
    /\ child = NoChild
    /\ opened = {} /\ fdopen = {} /\ sock = -1 /\ cachefd = -1
    /\ sigs = <<>>
    /\ handed = <<>> /\ ~Called("write_data")

\* C6: with filter_type reject, cb_check_data logs status=REJECTED and fails
\* the DATA command with reject_response, and that is all it does: it never
\* calls start_data, spools nothing, forks no child and opens no socket,
\* with a command configured or not.
C6_RejectData ==
    g_pxstate.filter_type = FILTER_REJECT =>
        /\ NothingStarted
        /\ ~Called("start_data") /\ ~Called("cache_data") /\ cache = <<>>
        /\ dataRet # <<>> =>
             \E ok \in BOOLEAN :
                /\ DataCalls = <<AddLog(STATUS_REJECTED),
                                 Call("fail_data", DEFAULT_REJECT, ok)>>
                /\ dataRet = <<IF ok THEN 0 ELSE -1>>

C6_Witness ==
    /\ g_pxstate.filter_type = FILTER_REJECT
    /\ g_pxstate.command # NULL
    /\ dataRet = <<0>>

\* C7: cb_check_pre returns 1 having logged nothing and called nothing when
\* filter_type is not reject; with reject it logs status=REJECTED, fails the
\* pending command with reject_response, and returns 0 if that succeeded
\* and -1 if it failed.
C7_CheckPre ==
    (pc = "idle" /\ preRet # <<>>) =>
        IF g_pxstate.filter_type # FILTER_REJECT
        THEN preRet = <<1>> /\ calls = <<>>
        ELSE \E ok \in BOOLEAN :
                /\ calls = <<AddLog(STATUS_REJECTED),
                             Call("fail_msg", DEFAULT_REJECT, ok)>>
                /\ preRet = <<IF ok THEN 0 ELSE -1>>

C7_Witness ==
    /\ pc = "idle"
    /\ g_pxstate.filter_type = FILTER_REJECT
    /\ preRet = <<-1>>

\* C8: with no command and filter_type pipe, file or smtp, cb_check_data
\* starts DATA, spools the body with cache_data and commits it with
\* done_data and the header, each step taken when the one before succeeded,
\* with no child, no socket and no write_data; when it returns 0 the body
\* delivered is the body received.
C8_Bypass ==
    (g_pxstate.command = NULL /\ g_pxstate.filter_type # FILTER_REJECT) =>
        /\ NothingStarted
        /\ dataRet # <<>> =>
             \E okS, okC, okD \in BOOLEAN :
                /\ calls = <<Call("start_data", NULL, okS)>>
                     \o (IF okS THEN <<Call("cache_data", NULL, okC)>> ELSE <<>>)
                     \o (IF okS /\ okC THEN <<Call("done_data", Header, okD)>> ELSE <<>>)
                /\ dataRet = <<IF okS /\ okC /\ okD THEN 0 ELSE -1>>
                /\ (okS /\ okC /\ okD) => delivered = <<Flatten(body)>>

C8_Witness ==
    /\ g_pxstate.command = NULL
    /\ g_pxstate.filter_type = FILTER_SMTP
    /\ dataRet = <<0>>
    /\ body # <<>>
    /\ delivered = <<Flatten(body)>>


\* The child of this dispatch, once forked.
Forked == child.st # "none"

\* C1: when a pipe or file dispatch has returned, the child it forked is
\* neither running nor a zombie nobody has waited for.
C1_NoChildLeft ==
    (pc = "done" /\ g_pxstate.filter_type \in {FILTER_PIPE, FILTER_FILE}) =>
        child.st \notin {"run", "zombie"}

\* C2: in pipe mode the blocks handed to sp_write_data, concatenated, are at
\* every moment a prefix of what the child has written to its stdout, and
\* all of it once status=FILTERED is logged.
C2_StdoutPassedThrough ==
    IsPipe =>
        /\ IsPrefix(handed, childOut)
        /\ Logged(STATUS_FILTERED) => handed = childOut

C2_Witness ==
    /\ IsPipe
    /\ Logged(STATUS_FILTERED)
    /\ Len(childOut) = MaxOut
    /\ handed = childOut

\* The pump and the reaper completed: the exit status was translated.
Translated == pc = "done" /\ Forked /\ pid = 0

\* sp_fail_data was called with a reason of its own.
FailedWithReason ==
    \E i \in 1..Len(calls) : calls[i].op = "fail_data" /\ calls[i].arg # NULL

\* C3: once the pump and the reaper have completed, the way the child ended
\* decides the outcome: exit code 0 gives done_data with the header and
\* status=FILTERED, another exit code gives fail_data with a reason that is
\* logged as status, and a signal gives neither, a failure return and
\* status=FILTER-ERROR.
C3_ExitStatusDecides ==
    Translated =>
        IF ~child.status.exited
        THEN /\ ~Called("done_data") /\ ~FailedWithReason
             /\ ret = -1
             /\ Logged(STATUS_FILTER_ERROR)
        ELSE IF child.status.code = 0
        THEN /\ \E ok \in BOOLEAN, i \in 1..Len(calls) :
                  calls[i] = Call("done_data", Header, ok)
             /\ ~FailedWithReason
             /\ CalledOk("done_data") => Logged(STATUS_FILTERED)
        ELSE /\ ~Called("done_data")
             /\ \E i \in 1..Len(calls) :
                  /\ calls[i].op = "fail_data" /\ calls[i].arg # NULL
                  /\ calls[i].arg # <<>>
                  /\ calls[i].ok => (i < Len(calls) /\ calls[i + 1] = AddLog(calls[i].arg))

\* C4: when a dispatch has returned, every descriptor the core opened in it
\* has been closed exactly once and none is open.
C4_DescriptorsClosedOnce ==
    pc = "done" =>
        /\ fdopen = {}
        /\ \A f \in opened : closes[f] = 1


\* select has returned with no descriptor ready while one was watched: a
\* timeout, or a failure.
SelectNoneReady ==
    /\ pc \in {"pipe_select", "file_select"}
    /\ pc' # pc
    /\ ~(infd = -1 /\ outfd = -1 /\ errfd = -1)
    /\ rmask' = {} /\ wmask' = {}

\* The pump was given up: the function is at or past cleanup with ret = -1
\* and the pid of the child it forked.
PumpAborted ==
    /\ pc \in {"pipe_cleanup", "file_cleanup", "kill_term", "wait_poll",
               "kill_kill", "pipe_return", "file_return", "done"}
    /\ pid = ChildPid
    /\ ret = -1

WaitSucceeds ==
    pc' = IF wcaller = "reap"
          THEN (IF IsPipe THEN "pipe_status" ELSE "file_status")
          ELSE (IF IsPipe THEN "pipe_return" ELSE "file_return")

\* C10: a poll of wait_process for a pid that has been reaped already
\* (ECHILD, or 0 from waitpid and ESRCH from kill) returns success and
\* leaves the process table as it found it, so that every later call does
\* the same.
C10_ReapedIsSuccess ==
    [][(pc = "wait_poll" /\ pc' # pc /\ waits > 0
            /\ pid = ChildPid /\ child.st = "reaped")
          => (WaitSucceeds /\ child' = child)]_vars

C10_Witness ==
    /\ pc = "pipe_return"
    /\ wcaller = "kill"
    /\ pid = ChildPid
    /\ child.st = "reaped"
    /\ child.status = SignalStatus
    /\ status = ExitStatus(0)


\* A string without its whitespace.
Squeeze(s) == SelectSeq(s, LAMBDA c : ~isspace(c))

\* The last line of a stream that holds more than whitespace, complete or
\* still being written; <<>> when there is none.
LastNonEmptyLine(s) ==
    LET B == {0, Len(s) + 1} \cup {i \in 1..Len(s) : s[i] = "\n"}
        After(a) == CHOOSE b \in B : b > a /\ \A c \in B : c > a => b <= c
        Seg(a) == SubSeq(s, a + 1, After(a) - 1)
        Good == {a \in B \ {Len(s) + 1} : Squeeze(Seg(a)) # <<>>}
    IN  IF Good = {} THEN <<>>
        ELSE Seg(CHOOSE a \in Good : \A c \in Good : c <= a)

\* C9: after any sequence of chunks the accumulator leaves room for its
\* terminator, and it holds the text of the last non-empty line of the
\* stream so far: all of it, or as much as the capacity takes.
C9_HoldsLastLine ==
    /\ Len(f_buf) <= BufLen - 1
    /\ IsPrefix(Squeeze(f_buf), Squeeze(LastNonEmptyLine(f_stream)))
    /\ Len(f_buf) < BufLen - 1 =>
          Squeeze(f_buf) = Squeeze(LastNonEmptyLine(f_stream))

(***************************************************************************)
(* The SMTP relay.                                                         *)
(***************************************************************************)
Last(s) == s[Len(s)]

\* The dispatch is the relay of process_smtp_command.
IsRelay == g_pxstate.filter_type = FILTER_SMTP /\ g_pxstate.command # NULL

\* The recipients of the envelope, in list order.
RECURSIVE Tokens(_)
Tokens(r) == IF r = NULL THEN <<>> ELSE <<strsep(r).token>> \o Tokens(strsep(r).r)

\* The commands up to the k-th RCPT TO, in the order of the protocol.
UpToRcpt(k) ==
    <<EHLO, XCLIENT, MAIL_FROM(envelope.sender)>>
        \o [i \in 1..k |-> RCPT_TO(Tokens(envelope.recipients)[i])]

\* The last command sent was a RCPT TO, and the server's reply to it was
\* received and does not start with 250.
RcptRefused ==
    /\ IsRelay
    /\ sent # <<>> /\ Head(Last(sent)) = "RCPT TO: "
    /\ Len(rcvd) = Len(sent) + 1
    /\ Head(Last(rcvd)) # "250"

\* C11: when the downstream server has answered a RCPT TO with a line that
\* does not start with 250, that RCPT TO stays the last thing sent (no
\* further RCPT TO, no DATA, no body byte), done_data is not called, the
\* DATA command is failed with the line trimmed of trailing whitespace, and
\* when the framework took that, the line is logged as status, nothing else
\* is logged or called, and the dispatch returns 0 with the socket closed.
C11_RcptRefusedIsCleanReject ==
    RcptRefused =>
        LET line == trim_end(Last(rcvd))
            told == <<Call("start_data", NULL, TRUE), Call("cache_data", NULL, TRUE)>>
        IN  /\ pc \in {"smtp_cleanup", "done"}
            /\ sent = UpToRcpt(Len(sent) - 3)
            /\ sentBody = <<>>
            /\ ~Called("done_data")
            /\ \E ok \in BOOLEAN :
                 /\ IsPrefix(told \o <<Call("fail_data", line, ok)>>, calls)
                 /\ ok => /\ calls = told \o <<Call("fail_data", line, TRUE), AddLog(line)>>
                          /\ ret = 0
                          /\ pc = "done" => dataRet = <<0>>
            /\ pc = "done" => SockFd \notin fdopen /\ closes[SockFd] = 1

\* The first of two recipients is refused, with a reply that has text and
\* a line end to trim.
C11_Witness ==
    /\ pc = "done"
    /\ RcptRefused
    /\ envelope.recipients = Recipients(2)
    /\ sent = UpToRcpt(1)
    /\ Last(rcvd) # trim_end(Last(rcvd))
    /\ dataRet = <<0>>


\* DATA is the command after the last RCPT TO; the server has answered it
\* with 354.
DataIdx == 4 + Len(Tokens(envelope.recipients))
DataAccepted ==
    /\ IsRelay
    /\ envelope.sender # NULL /\ envelope.recipients # NULL
    /\ Len(sent) >= DataIdx /\ Len(rcvd) > DataIdx
    /\ Head(rcvd[DataIdx + 1]) = "354"

\* Something was sent after the body: the end of the data.
EndOfDataSent == DataAccepted /\ Len(sent) > DataIdx

\* C12: once the downstream server has answered DATA with 354 and the core
\* has sent the end of the data, the body bytes it sent are the bytes of the
\* cache file, all of them and in order, and what it sent after them is the
\* terminator "\r\n.\r\n".
C12_BodyThenTerminator ==
    EndOfDataSent =>
        /\ sentBody = cache
        /\ sent[DataIdx + 1] = <<"\r\n.\r\n">>


\* The server's answer to the end of the data was received.
FinalReplied == EndOfDataSent /\ Len(rcvd) = DataIdx + 2
FinalReply == rcvd[DataIdx + 2]

\* The relay was entered and is over without an answer to the end of the
\* data and without a refused recipient: socket(), connect(), a send or a
\* recv failed, or a reply did not have the prefix required (or the message
\* could not be spooled or read, or has no sender or recipients).
RelayBroken ==
    /\ IsRelay
    /\ pc = "done"
    /\ Called("cache_data")
    /\ ~FinalReplied
    /\ ~RcptRefused

\* C13: in the relay done_data is called if and only if the server's answer
\* to the end of the data starts with 250; with any other answer the DATA
\* command is failed with the answer trimmed, which is logged as status when
\* the framework took it; and a relay that broke before that answer logs
\* status=FILTER-ERROR and commits nothing.
C13_FinalReplyDecides ==
    IsRelay =>
        /\ Called("done_data") <=> (FinalReplied /\ Head(FinalReply) = "250")
        /\ CalledOk("done_data") => Logged(STATUS_FILTERED)
        /\ (FinalReplied /\ Head(FinalReply) # "250") =>
             LET line == trim_end(FinalReply)
                 told == <<Call("start_data", NULL, TRUE), Call("cache_data", NULL, TRUE)>>
             IN  \E ok \in BOOLEAN :
                   /\ IsPrefix(told \o <<Call("fail_data", line, ok)>>, calls)
                   /\ ok => /\ calls = told \o <<Call("fail_data", line, TRUE), AddLog(line)>>
                            /\ delivered = <<>>
        /\ RelayBroken =>
             /\ Logged(STATUS_FILTER_ERROR)
             /\ ~Called("done_data") /\ delivered = <<>>
             /\ ~FailedWithReason

\* The server refuses the message at the end of the data.
C13_Witness ==
    /\ IsRelay
    /\ pc = "done"
    /\ FinalReplied /\ Head(FinalReply) = "550"
    /\ FinalReply # trim_end(FinalReply)
    /\ dataRet = <<0>>


\* The commands of a whole relay, in the order of the protocol (the body
\* goes between DATA and the terminator).
Protocol ==
    UpToRcpt(Len(Tokens(envelope.recipients))) \o <<DATA, Terminator, SMTP_QUIT>>

\* The prefix the k-th reply must have for the k-th command to follow it:
\* the greeting and XCLIENT 220, DATA 354, the others 250; the reply to the
\* end of the data, which QUIT follows, may be any.
Required(k) ==
    IF k \in {1, 3} THEN <<"220">>
    ELSE IF k = DataIdx + 1 THEN <<"354">>
    ELSE IF k = DataIdx + 2 THEN NULL
    ELSE <<"250">>

\* C14: the commands the relay has sent are at every moment the first ones
\* of EHLO, XCLIENT, MAIL FROM, one RCPT TO per recipient in list order,
\* DATA, terminator, QUIT; the k-th of them was sent with the reply before
\* it received and starting with the prefix required; body bytes are sent
\* only between DATA, answered with 354, and the terminator; and with no
\* sender or no recipients no socket is opened, nothing is sent and the
\* dispatch, once DATA is started, ends with status=FILTER-ERROR.
C14_ProtocolOrder ==
    /\ [](IsRelay =>
            IF envelope.sender = NULL \/ envelope.recipients = NULL
            THEN /\ SockFd \notin opened /\ sock = -1
                 /\ sent = <<>> /\ sentBody = <<>> /\ rcvd = <<>>
                 /\ (pc = "done" /\ CalledOk("start_data")) =>
                      (ret = -1 /\ Logged(STATUS_FILTER_ERROR) /\ ~Called("done_data"))
            ELSE /\ IsPrefix(sent, Protocol)
                 /\ \A k \in 1..Len(sent) :
                      /\ Len(rcvd) >= k
                      /\ Required(k) # NULL => Head(rcvd[k]) = Head(Required(k))
                 /\ sentBody # <<>> => DataAccepted)
    /\ [][(IsRelay /\ sentBody' # sentBody) =>
             (sent' = sent /\ Len(sent) = DataIdx /\ DataAccepted)]_vars
    /\ [][(IsRelay /\ sent' # sent) =>
             (Len(sent') <= DataIdx => sentBody' = <<>>)]_vars

\* A whole relay with two recipients and a body.
C14_Witness ==
    /\ IsRelay
    /\ pc = "done"
    /\ envelope.recipients = Recipients(2)
    /\ sent = Protocol
    /\ sentBody = cache /\ cache # <<>>
    /\ CalledOk("done_data")


(***************************************************************************)
(* The reap-any loop of another dispatch, and a failing fork_filter.       *)
(***************************************************************************)
\* The filter child of this dispatch has exited with a code other than 0.
ExitedNonZero ==
    /\ child.st \in {"zombie", "reaped"}
    /\ child.status.exited /\ child.status.code # 0

\* C15: whatever the reap-any loop of another dispatch does in between, a
\* filter child that has exited with a non-zero code never leads to
\* done_data or status=FILTERED, and once its status is translated the DATA
\* command is failed with the rejection reason.
C15_ReapAnyKeepsVerdict ==
    ExitedNonZero =>
        /\ ~Called("done_data")
        /\ ~Logged(STATUS_FILTERED)
        /\ Translated => FailedWithReason

\* fork_filter has failed in this dispatch: it returned -1 for the pid.
ForkFailed == pid = -1

\* C16: when fork_filter has failed, no signal is sent, wait_process is not
\* called, close() is called on nothing but descriptors the core opened and
\* on each of them once, and when the dispatch has returned it has logged
\* status=FILTER-ERROR and failed.
C16_ForkFailureIsQuiet ==
    ForkFailed =>
        /\ sigs = <<>>
        /\ pc \notin {"wait_poll", "kill_kill"}
        /\ stray = {}
        /\ \A f \in opened : closes[f] <= 1
        /\ pc = "done" => (ret = -1 /\ Logged(STATUS_FILTER_ERROR))

(***************************************************************************)
(* kill_process.                                                           *)
(***************************************************************************)
\* kill_process is where it calls kill, and the process it names is gone.
KillFindsNone ==
    /\ pc \in {"kill_term", "kill_kill"}
    /\ pid = ChildPid /\ child.st \in {"none", "reaped"}

\* kill_process returns to the cleanup that called it.
KillReturns == pc' \in {"pipe_return", "file_return"}

PollReaped(o) == o.r = ChildPid
PollGone(o) == (o.r = 0 /\ o.probe = "ESRCH") \/ (o.r = -1 /\ o.errno \in {"ECHILD", "ESRCH"})
PollError(o) == o.r = -1 /\ o.errno \notin {"ECHILD", "ESRCH"}
PollPresent(o) == o.r = 0 /\ o.probe # "ESRCH"
WaitReturned == w_ret # <<>>

\* C18: wait_process always returns.  It polls at most timeout * 50 times,
\* sleeping 20 ms after every poll that found the child still there; every
\* poll before the last found the child there; it returns 0, with the
\* child's status, at the poll that reaps the child, and 0 with status 0 at
\* the poll that finds it gone (ECHILD, ESRCH, or waitpid 0 with kill(pid, 0)
\* saying ESRCH); it returns -1 at the poll where waitpid fails with another
\* error; and otherwise it returns -1 exactly after timeout * 50 polls that
\* all found the child there, timeout seconds of sleep in all.
C18_WaitTerminates ==
    /\ [](/\ w_polls <= g_pxstate.timeout * 50
          /\ w_present >= w_polls - 1
          /\ w_slept = POLL_TIME * w_present
          /\ (w_present = w_polls) = (w_last = <<>> \/ PollPresent(w_last[1]))
          /\ (~WaitReturned => w_present = w_polls)
          /\ (WaitReturned =>
                /\ w_polls > 0
                /\ PollReaped(w_last[1]) => (w_ret = <<0>> /\ status = w_last[1].status)
                /\ PollGone(w_last[1]) => (w_ret = <<0>> /\ status = ExitStatus(0))
                /\ PollError(w_last[1]) => w_ret = <<-1>>
                /\ PollPresent(w_last[1]) =>
                      /\ w_ret = <<-1>>
                      /\ w_polls = g_pxstate.timeout * 50
                      /\ w_slept = g_pxstate.timeout * 1000))
    /\ <>WaitReturned

C18_Witness ==
    /\ w_ret = <<-1>>
    /\ w_polls = g_pxstate.timeout * 50
    /\ PollPresent(w_last[1])

(***************************************************************************)
(* The stdin path of the pipe pump (SpecIn).                               *)
(***************************************************************************)
\* process_pipe_command handles stdin with the child's end of it closed.
WritesToClosedStdin ==
    /\ pc = "pipe_in" /\ pc' # pc
    /\ infd # -1 /\ infd \in wmask
    /\ ~child.inOpen
    /\ ibuf # <<>> \/ source # <<>>

\* sp_read_data failed before anything was written: RETURN(-1).
ReadFailedStep ==
    /\ ibuf = <<>>
    /\ calls' = Append(calls, ReadFails)
    /\ ret' = -1 /\ pc' = "pipe_cleanup"
    /\ infd' = infd /\ childIn' = childIn

\* The EPIPE branch: the rest of the source is read and dropped, to its end
\* unless sp_read_data fails, stdin is closed once, nothing is written, and
\* the iteration goes on to stdout with ret as it was.
EpipeHandled ==
    /\ infd' = -1
    /\ infd \notin fdopen'
    /\ closes'[infd] = closes[infd] + 1
    /\ childIn' = childIn
    /\ source' = <<>> \/ calls' = Append(calls, ReadFails)
    /\ source' # <<>> => \E k \in 1..Len(source) : source' = SubSeq(source, k, Len(source))
    /\ ret' = ret /\ pc' = "pipe_out"
    /\ outfd' = outfd /\ errfd' = errfd

\* C19: in the pipe pump the bytes written to the child's stdin are a prefix
\* of the chunks sp_read_data returns, in order; while stdin is open what is
\* written, what is left of the chunk in hand and the chunks yet to read
\* make up the body, so no byte is written twice or skipped; a chunk is
\* read only when the one in hand is written out; when the child has closed
\* its stdin (EPIPE) the source is drained, stdin is closed, nothing more
\* is written, and the iteration goes on to stdout and stderr, unless
\* sp_read_data itself fails.
C19_StdinInOrder ==
    /\ [](IsPrefix(childIn, Flatten(body)))
    /\ [](infd # -1 => childIn \o ibuf \o Flatten(source) = Flatten(body))
    /\ [][(source' # source /\ infd' = infd) =>
            /\ pc = "pipe_in" /\ infd # -1 /\ infd \in wmask
            /\ ibuf = <<>>
            /\ source' = Tail(source)
            /\ childIn' \o ibuf' = childIn \o Head(source)]_vars
    /\ [][(source' # source /\ infd' # infd) => WritesToClosedStdin]_vars
    /\ [][WritesToClosedStdin => (EpipeHandled \/ ReadFailedStep)]_vars
    /\ [][(infd = -1 /\ pc \notin {"idle", "pipe_fork"}) => (childIn' = childIn /\ infd' = -1)]_vars

C19_Witness ==
    /\ pc = "pipe_closesink" /\ ret = 0
    /\ Len(body) >= 3 /\ Len(childIn) = 3
    /\ infd = -1 /\ source = <<>> /\ ~Called("read_data")
    /\ handed = childOut /\ handed # <<>>

(***************************************************************************)
(* What comes before sp_done_data in process_pipe_command.                 *)
(***************************************************************************)
SinkClosedBeforeDone ==
    \E i, j \in 1..Len(calls) :
        /\ i < j
        /\ calls[i] = Call("write_data", <<"close">>, TRUE)
        /\ calls[j].op = "done_data"

\* C20: in pipe mode with a filter command, once done_data has been called
\* the pump has closed the child's stdin, stdout and stderr, each once and
\* stdout and stderr at end of file, the body sink was closed with
\* write_data(n = 0) before done_data, and the child has been reaped and
\* had exited with code 0.
C20_DoneAfterCloseAndReap ==
    (IsPipe /\ g_pxstate.command # NULL /\ Called("done_data")) =>
        /\ infd = -1 /\ outfd = -1 /\ errfd = -1
        /\ closes[PipeI[WRITE_END]] = 1
        /\ closes[PipeO[READ_END]] = 1
        /\ closes[PipeE[READ_END]] = 1
        /\ outPipe = <<>> /\ errPipe = <<>>
        /\ SinkClosedBeforeDone
        /\ child.st = "reaped"
        /\ child.status = ExitStatus(0)

(***************************************************************************)
(* sp_is_quit in the pumps.                                                *)
(***************************************************************************)
\* sp_is_quit turned true with an iteration of a pump still to come.
QuitInPump == quit /\ g_pxstate.filter_type \in {FILTER_PIPE, FILTER_FILE}

DispatchAborted ==
    /\ ~Called("done_data")
    /\ Logged(STATUS_FILTER_ERROR)
    /\ child.st # "run"

\* C21: in the pipe pump and in the file pump, once sp_is_quit is true the
\* next iteration of the loop, whatever its reads give, aborts the
\* dispatch: when cb_check_data has returned, done_data was not called,
\* status=FILTER-ERROR is logged and the child no longer runs.
C21_QuitAborts == (QuitInPump /\ pc = "done") => DispatchAborted

(***************************************************************************)
(* The accumulator after a line is complete (SpecFold).                    *)
(***************************************************************************)
\* The chunk the step folds.
FoldedChunk == SubSeq(f_stream', Len(f_stream) + 1, Len(f_stream'))

\* C22: when the chunks folded so far end in a newline, folding a chunk
\* that carries text leaves in the accumulator what folding that chunk into
\* an empty accumulator leaves: nothing of the previous line, whatever its
\* length was.
C22_NewlineStartsFresh ==
    [][(/\ f_stream' # f_stream
        /\ f_stream # <<>> /\ Last(f_stream) = "\n"
        /\ trim_end(FoldedChunk) # <<>>)
        => f_buf' = buffer_reject_message(FoldedChunk, <<>>, BufLen)]_vars

(***************************************************************************)
(* The reason final_reject_message leaves (SpecFold).                      *)
(***************************************************************************)
\* The stream holds nothing but whitespace.
NoLineText == \A i \in 1..Len(f_stream) : isspace(f_stream[i])

\* C23: whatever the child wrote to stderr, the reason final_reject_message
\* leaves for fail_data is not empty: it is "Content Rejected" when the
\* stream held no text, blank lines included, and otherwise the
\* accumulated line without its trailing whitespace.
C23_ReasonNeverEmpty ==
    pc = "fold_final" =>
        /\ ebuf # <<>>
        /\ ebuf = IF NoLineText THEN strlcpy(REJECTED, BufLen) ELSE trim_end(f_buf)

(***************************************************************************)
(* done_data and fail_data within one cb_check_data.                       *)
(***************************************************************************)
\* The instruction whose failure cb_check_data answers with -1: start_data,
\* cache_data or done_data when no command is configured, and the fail_data
\* that ends the callback (of line 284, or of reject mode).
PropagatedFailure(c) ==
    /\ ~c.ok
    /\ \/ c.op = "start_data"
       \/ c.op \in {"cache_data", "done_data"} /\ g_pxstate.command = NULL
       \/ c.op = "fail_data"
          /\ c.arg = IF g_pxstate.filter_type = FILTER_REJECT
                     THEN DEFAULT_REJECT ELSE NULL

\* C24: among the instructions of one cb_check_data, no fail_data comes
\* after a done_data that succeeded and no done_data after a fail_data that
\* succeeded; and cb_check_data returns 0 or -1, -1 only when the last
\* instruction it gave the framework (start_data, cache_data or done_data
\* of the bypass, or the final fail_data) failed.
C24_TerminalsExclusive ==
    /\ \A i, j \in 1..Len(DataCalls) :
          (i < j /\ DataCalls[i].ok) =>
             /\ ~(DataCalls[i].op = "done_data" /\ DataCalls[j].op = "fail_data")
             /\ ~(DataCalls[i].op = "fail_data" /\ DataCalls[j].op = "done_data")
    /\ dataRet \in {<<>>, <<0>>, <<-1>>}
    /\ dataRet = <<-1>> =>
          /\ DataCalls # <<>>
          /\ PropagatedFailure(Last(DataCalls))

\* done_data failed, and the fail_data that followed it succeeded.
C24_Witness ==
    /\ pc = "done" /\ dataRet = <<0>>
    /\ Called("done_data") /\ ~CalledOk("done_data")
    /\ CalledOk("fail_data")

(***************************************************************************)
(* Termination of the pipe and file dispatches (SpecLive).                 *)
(***************************************************************************)
IsPump ==
    /\ g_pxstate.filter_type \in {FILTER_PIPE, FILTER_FILE}
    /\ g_pxstate.command # NULL

\* select is left with nothing to read and nothing more to write while a
\* descriptor is still open.
SelectIdle ==
    /\ pc \in {"pipe_select", "file_select"} /\ pc' # pc
    /\ ~OutReadable /\ ~ErrReadable
    /\ infd = -1
    /\ outfd # -1 \/ errfd # -1

PumpGivenUp == ret' = -1 /\ pc' \in {"pipe_cleanup", "file_cleanup"}

\* C25: every dispatch in pipe or file mode returns; a select that finds a
\* silent child with its pipes open gives the pump up (the idle timeout),
\* and so does a reaper whose budget is used up with the child still
\* running.
C25_DispatchReturns ==
    /\ IsPump => <>(pc = "done")
    /\ [][(IsPump /\ SelectIdle) => PumpGivenUp]_vars
    /\ [][(IsPump /\ pc = "wait_poll" /\ wcaller = "reap" /\ waits <= 0 /\ pc' # pc)
            => PumpGivenUp]_vars

\* A child that never exited: the reaper's budget ran out and it was killed.
C25_Witness ==
    /\ IsPump /\ pc = "done" /\ ~quit
    /\ sigs = <<<<ChildPid, SIGTERM>>, <<ChildPid, SIGKILL>>>>
    /\ fdopen = {}

(***************************************************************************)
(* The reply smtp_command captures (SpecRecv).                             *)
(***************************************************************************)
\* C26: whatever number of bytes recv returns, smtp_command writes inside
\* buf only, returns, and leaves in *resp_data the whole reply the server
\* sent, all its lines.
C26_ReplyCaptured ==
    pc # "idle" =>
        /\ ~r_oob
        /\ pc = "recv_done"
        /\ r_resp = r_reply

(***************************************************************************)
(* The indices of the accumulator buffer_reject_message touches (SpecFold).*)
(***************************************************************************)
\* C27: folding any chunk into any accumulator, buffer_reject_message reads
\* and writes buf at the indices 0 to buflen - 1 only: no fold has read the
\* byte before buf, and what buf holds, terminator included, fits buflen.
C27_AccumulatorInBounds ==
    /\ ~f_oob
    /\ Len(f_buf) + 1 <= BufLen

=============================================================================
